---------------------------- MODULE Spec2Model ----------------------------
(***************************************************************************)
(* A model of the Carbon build configuration scripts (Scripts/SCons):      *)
(*   - the configuration pass of Shared.sconscript.py, the platform script *)
(*     it selects and the compiler scripts that one invokes, followed by   *)
(*     the calls a project description makes on the configured base        *)
(*     environment (CarbonProgram/Carbonize, IsCarbonEngineStatic);        *)
(*   - the object emitters of Compilers/GCCPrecompiledHeader.py;           *)
(*   - the header closure GetDependentHeaders of Shared.sconscript.py;     *)
(*   - the dependency paths GetDependencyPath of Shared.sconscript.py;     *)
(*   - UsePrecompiledHeader of the GCC and Clang compiler scripts.         *)
(* Strings are Python strings, lists are sequences, dictionaries are       *)
(* functions whose DOMAIN is the set of keys present.                      *)
(***************************************************************************)
EXTENDS Integers, Sequences, FiniteSets, TLC

VARIABLES
    \* ---- inputs of one configuration pass (never written)
    ARGUMENTS,             \* key=value command-line arguments; Absent = key not given
    COMMAND_LINE_TARGETS,  \* the targets named on the command line
    osName,                \* os.name
    sysPlatform,           \* sys.platform
    environ,               \* os.environ: the set of variables that are set
    fs,                    \* the file system: the set of paths that exist
    \* ---- state of the configuration pass
    pc,                    \* position of the pass
    status,                \* "running", "Exit(1)" or the name of the exception raised
    stdout,                \* the diagnostics printed so far
    invoked,               \* the scripts run through SConscript(), in order
    exports,               \* names made global by Export() so far
    buildType,             \* Shared.sconscript.py: buildType
    platformScriptFile,    \* Shared.sconscript.py: platformScriptFile
    platformScript,        \* the Platform Descriptor the platform script returned
    imported,              \* the exported names the platform script imported
    baseEnv,               \* the base build environment
    installDir,            \* Shared.sconscript.py: installDir
    e,                     \* the clone the last CarbonProgram call carbonized
    calls,                 \* number of project-description calls made so far
    returned,              \* <<value>> the last IsCarbonEngineStatic() call returned, <<>> if none
    \* ---- the object emitters of GCCPrecompiledHeader.py
    includes,              \* the include relation the C scanner reports
    gch,                   \* env['GCH']: the precompiled artifact's node, Unbound when not set
    todo,                  \* translation units not yet submitted to an object builder
    depends,               \* the Depends(target, env['GCH']) edges added so far
    objects,               \* the object builder calls made: target, source, env['GCH'] then
    \* ---- GetDependentHeaders
    graph,                 \* the include relation the C scanner reports
    explicit,              \* explicitIncludes of the last call a caller made
    stack,                 \* the frames of the recursion, innermost last
    result,                \* the shared set of visited headers
    scans,                 \* how many times each header was handed to the scanner
    hpc,                   \* "idle", "running" or "returned"
    \* ---- GetDependencyPath
    depCalls,              \* the calls made so far: arguments and how each ended
    depTable,              \* defaultVersions as the last call left it
    \* ---- UsePrecompiledHeader
    useEnv,                \* the environment UsePrecompiledHeader is called on
    artifacts,             \* the precompiled artifacts and the clone each is built with
    commands,              \* the compilations issued from the environment so far
    upc,                   \* "idle", "built" (inside a call) or "UserError"
    ucall                  \* the arguments of the call that is running

cfgVars == <<ARGUMENTS, COMMAND_LINE_TARGETS, osName, sysPlatform, environ, fs, pc, status,
             stdout, invoked, exports, buildType, platformScriptFile, platformScript,
             imported, baseEnv, installDir, e, calls, returned>>
pchVars == <<includes, gch, todo, depends, objects>>
hdrVars == <<graph, explicit, stack, result, scans, hpc>>
depVars == <<depCalls, depTable>>
useVars == <<useEnv, artifacts, commands, upc, ucall>>
vars == <<cfgVars, pchVars, hdrVars, depVars, useVars>>

---------------------------------------------------------------------------
(* Python values and string helpers *)

Absent == "<absent>"
None == "<None>"
\* what a name holds before the script binds it to an environment or a descriptor
Unbound == [unbound |-> TRUE]

StartsWith(s, p) == Len(s) >= Len(p) /\ SubSeq(s, 1, Len(p)) = p
EndsWith(s, p) == Len(s) >= Len(p) /\ SubSeq(s, Len(s) - Len(p) + 1, Len(s)) = p

\* os.path.join(a, b): posixpath.join when os.name is "posix"; ntpath.join when it is
\* "nt" (both separators are recognised and the backslash is inserted; drive letters
\* are not modelled)
Join2(os, a, b) ==
    LET isSep(ch) == ch = "/" \/ (os = "nt" /\ ch = "\\")
        sep == IF os = "nt" THEN "\\" ELSE "/"
    IN IF b # "" /\ isSep(SubSeq(b, 1, 1)) THEN b
       ELSE IF a = "" \/ isSep(SubSeq(a, Len(a), Len(a))) THEN a \o b
       ELSE a \o sep \o b

RECURSIVE JoinFrom(_, _, _)
JoinFrom(os, acc, parts) ==
    IF parts = <<>> THEN acc ELSE JoinFrom(os, Join2(os, acc, Head(parts)), Tail(parts))

\* os.path.join(*parts)
OsPathJoin(os, parts) == JoinFrom(os, Head(parts), Tail(parts))

\* list.remove(x): the list without the first occurrence of x (x is in the list)
RECURSIVE ListRemove(_, _)
ListRemove(list, x) ==
    IF list = <<>> THEN <<>>
    ELSE IF Head(list) = x THEN Tail(list)
    ELSE <<Head(list)>> \o ListRemove(Tail(list), x)

Contains(list, x) == \E i \in 1..Len(list) : list[i] = x

ToSet(list) == {list[i] : i \in 1..Len(list)}

\* dict.get(key, default) on ARGUMENTS
ArgGet(args, key, default) == IF args[key] = Absent THEN default ELSE args[key]

\* key in ARGUMENTS
ArgIn(args, key) == args[key] # Absent

---------------------------------------------------------------------------
(* The inputs a pass is run with *)

ArgKeys == {"type", "strict", "platform", "platformscript", "carbonroot", "static",
            "architecture", "slim", "gccversion", "ndk"}

NoArguments == [k \in ArgKeys |-> Absent]

Platforms == {"Android", "iOS", "iOSSimulator", "Linux", "MacOSX", "macOS", "Windows"}

\* The platform scripts that sit beside Shared.sconscript.py
ScriptFiles == {p \o ".sconscript.py" : p \in Platforms}

\* (os.name, sys.platform) of the hosts; "linux" is what Python 3 reports on Linux
Hosts == {<<"nt", "win32">>, <<"posix", "darwin">>, <<"posix", "linux2">>, <<"posix", "linux">>}


---------------------------------------------------------------------------
(* What a script run yields: how it ended ("returned", "Exit(1)" or the    *)
(* exception raised), what it printed, the scripts it ran through          *)
(* SConscript(), and the value it Return()ed (None unless it returned).    *)

Returned(scripts, value) ==
    [status |-> "returned", out |-> <<>>, invoked |-> scripts, value |-> value]

Exit1(scripts, message) ==
    [status |-> "Exit(1)", out |-> <<message>>, invoked |-> scripts, value |-> None]

Raised(scripts, exception) ==
    [status |-> exception, out |-> <<>>, invoked |-> scripts, value |-> None]

\* env.Append(key=list): a key that is not set yet is created
EnvAppend(env, key, list) ==
    IF key \in DOMAIN env THEN [env EXCEPT ![key] = @ \o list] ELSE (key :> list) @@ env

\* The context a script reads: the pass's inputs and the names the shared layer
\* exported before it ran the platform script (Shared.sconscript.py, line 37).
Context(args, os, sysP, envvars, files, type) ==
    [args |-> args, osName |-> os, sysPlatform |-> sysP, environ |-> envvars, fs |-> files,
     buildType |-> type,
     isDebugBuild |-> (type = "Debug"),
     isStrictBuild |-> (ArgGet(args, "strict", "false") = "true")]

---------------------------------------------------------------------------
(* Compilers/GCC.sconscript.py *)

GCCStrictCCFLAGS == <<"-pedantic-errors", "-Wextra", "-Wno-unused-parameter", "-Werror">>

GCCBuildTypeFlags(c, env) ==
    IF c.isDebugBuild
    THEN [env EXCEPT !.CCFLAGS = @ \o <<"-g", "-O0">>, !.CPPDEFINES = @ \o <<"DEBUG">>]
    ELSE [env EXCEPT !.CCFLAGS = @ \o <<"-O3">>, !.CPPDEFINES = @ \o <<"NDEBUG">>]

GCCStrictFlags(c, env) ==
    IF c.isStrictBuild
    THEN [env EXCEPT !.CCFLAGS = @ \o GCCStrictCCFLAGS, !.LINKFLAGS = @ \o <<"-Werror">>]
    ELSE env

\* Environment(tools=['gcc', 'g++', 'gnulink', 'ar', 'as']) and lines 17-22. The keys
\* kept are those a platform script, Carbonize or a precompiled header reads or writes;
\* LINKFLAGS and FRAMEWORKS start as SCons' empty lists. CPPPATH, LIBPATH and LIBS are
\* not set here. METHODS holds the names added with AddMethod, USEPCH the script whose
\* UsePrecompiledHeader is bound.
GCCBaseEnv ==
    [CC |-> "gcc", CXX |-> "g++", LINK |-> "$SMARTLINK", AR |-> "ar", AS |-> "as",
     RANLIB |-> "ranlib",
     ARFLAGS |-> <<"rc", "-S">>,
     CCFLAGS |-> <<"-ffast-math", "-fvisibility=hidden", "-Wall">>,
     CPPDEFINES |-> <<>>,
     LINKFLAGS |-> <<>>,
     FRAMEWORKS |-> <<>>,
     ENV |-> {},
     METHODS |-> {},
     USEPCH |-> None]

GCCScript(c) ==
    LET env1 == GCCBuildTypeFlags(c, GCCStrictFlags(c, GCCBaseEnv))
        env2 == [env1 EXCEPT !.METHODS = @ \cup {"BuildPrecompiledHeader", "Gch", "GchSh",
                                                 "UsePrecompiledHeader"},
                             !.USEPCH = "GCC"]
    IN Returned(<<"Compilers/GCC.sconscript.py">>, env2)

---------------------------------------------------------------------------
(* Compilers/Clang.sconscript.py *)

\* the strict warnings without the one the Android script removes again
ClangStrictCCFLAGS_Fewer ==
    <<"-Weverything", "-Wno-c++98-compat", "-Wno-disabled-macro-expansion",
      "-Wno-documentation", "-Wno-padded", "-Wno-sign-conversion", "-Wno-switch-enum",
      "-Wno-weak-vtables">>

ClangStrictCCFLAGS ==
    <<"-Weverything", "-Wno-c++98-compat", "-Wno-disabled-macro-expansion",
      "-Wno-documentation", "-Wno-documentation-unknown-command",
      "-Wno-exit-time-destructors", "-Wno-float-equal", "-Wno-format-nonliteral",
      "-Wno-global-constructors", "-Wno-header-hygiene", "-Wno-implicit-fallthrough",
      "-Wno-keyword-macro", "-Wno-missing-noreturn", "-Wno-missing-prototypes",
      "-Wno-nullable-to-nonnull-conversion", "-Wno-over-aligned", "-Wno-padded",
      "-Wno-sign-conversion", "-Wno-switch-enum", "-Wno-weak-vtables">>

\* lines 22-25
ClangColorDiagnostics(c, env) ==
    IF "TERM" \in c.environ
    THEN [env EXCEPT !.ENV = @ \cup {"TERM"}, !.CCFLAGS = @ \o <<"-fcolor-diagnostics">>]
    ELSE env

\* lines 27-30
ClangXcrun(c, env) ==
    IF c.sysPlatform = "darwin"
    THEN [env EXCEPT !.CC = "xcrun " \o @, !.CXX = "xcrun " \o @, !.LINK = "xcrun " \o @,
                     !.AR = "xcrun " \o @, !.AS = "xcrun " \o @, !.RANLIB = "xcrun " \o @]
    ELSE env

\* the strict flags put in place of the flags set so far
ClangStrictFlags_Replace(c, env) ==
    IF c.isStrictBuild THEN [env EXCEPT !.CCFLAGS = ClangStrictCCFLAGS] ELSE env

\* lines 32-39
ClangStrictFlags(c, env) ==
    IF c.isStrictBuild THEN [env EXCEPT !.CCFLAGS = @ \o ClangStrictCCFLAGS] ELSE env

ClangScript(c) ==
    LET gcc == GCCScript(c)
        env1 == [gcc.value EXCEPT !.CC = "clang", !.CXX = "clang++", !.LINK = "clang++",
                                  !.CCFLAGS = @ \o <<"-stdlib=libc++">>,
                                  !.LINKFLAGS = @ \o <<"-stdlib=libc++">>]
        env2 == ClangStrictFlags(c, ClangXcrun(c, ClangColorDiagnostics(c, env1)))
        env3 == [env2 EXCEPT !.USEPCH = "Clang"]
    IN Returned(<<"Compilers/Clang.sconscript.py">> \o gcc.invoked, env3)

---------------------------------------------------------------------------
(* Compilers/VisualStudio.sconscript.py *)

\* line 12: the MSVC_VERSION table
MSVCVersions == [VisualStudio2015 |-> "14.0"]

\* line 13: the TARGET_ARCH table
MSVCTargetArch == [x86 |-> "x86", x64 |-> "x86_64"]

\* lines 23-26
VSStrictFlags(c, env) ==
    IF c.isStrictBuild
    THEN [env EXCEPT !.CCFLAGS = @ \o <<"/W4", "/WX">>, !.LINKFLAGS = @ \o <<"/WX">>]
    ELSE env

\* lines 28-38
VSBuildTypeFlags(c, architecture, env) ==
    IF c.isDebugBuild
    THEN [env EXCEPT !.CPPDEFINES = @ \o <<"_DEBUG">>,
                     !.CCFLAGS = @ \o <<"/MTd", "/Od", "/RTC1">>]
    ELSE [env EXCEPT !.CCFLAGS = @ \o <<"/MT", "/O2">>
                                   \o (IF architecture = "x86" THEN <<"/arch:SSE2">> ELSE <<>>),
                     !.CPPDEFINES = @ \o <<"NDEBUG">>,
                     !.LINKFLAGS = @ \o <<"/OPT:REF,ICF">>]

\* Environment(MSVC_VERSION=..., TARGET_ARCH=...) and lines 15-21: the compiler is
\* the msvc tool's cl
VSBaseEnv(architecture, compiler) ==
    [CC |-> "cl", CXX |-> "$CC", LINK |-> "link", AR |-> "lib",
     AS |-> (IF architecture = "x64" THEN "ml64" ELSE "ml"),
     MSVC_VERSION |-> MSVCVersions[compiler],
     TARGET_ARCH |-> MSVCTargetArch[architecture],
     ARFLAGS |-> <<"/MACHINE:" \o architecture>>,
     CCFLAGS |-> <<"/EHsc", "/fp:fast", "/nologo">>,
     CPPDEFINES |-> <<"WIN32", "_WINDOWS">>,
     LINKFLAGS |-> <<"/DYNAMICBASE", "/MANIFEST", "/nologo", "/NXCOMPAT",
                     "/MACHINE:" \o architecture, "/INCREMENTAL:NO">>,
     ENV |-> {},
     METHODS |-> {"EmbedManifestFile", "UsePrecompiledHeader"},
     USEPCH |-> "VisualStudio"]

\* The script is run with exports='architecture compiler'
VisualStudioScript(c, architecture, compiler) ==
    LET me == <<"Compilers/VisualStudio.sconscript.py">> IN
    IF compiler \notin DOMAIN MSVCVersions THEN Raised(me, "KeyError")
    ELSE IF architecture \notin DOMAIN MSVCTargetArch THEN Raised(me, "KeyError")
    ELSE Returned(me, VSBuildTypeFlags(c, architecture,
                          VSStrictFlags(c, VSBaseEnv(architecture, compiler))))

---------------------------------------------------------------------------
(* Android.sconscript.py *)

\* os.environ['CARBON_ANDROID_NDK_PATH'] when it is set, and the working directory
EnvNDKPath == "/opt/android-ndk"
Cwd == "/carbon/Scripts/SCons"

\* os.path.abspath(path)
AbsPath(path) ==
    IF path = "" THEN Cwd ELSE IF StartsWith(path, "/") THEN path ELSE Join2("posix", Cwd, path)

\* lines 11 and 21
NDK_PATH(c) ==
    AbsPath(ArgGet(c.args, "ndk",
                   IF "CARBON_ANDROID_NDK_PATH" \in c.environ THEN EnvNDKPath ELSE ""))

\* line 24
HOST_PLATFORMS ==
    [darwin |-> "darwin-x86_64", win32 |-> "windows-x86_64", linux2 |-> "linux-x86_64"]

\* lines 28-45
ARCH_CONFIGS ==
    [ARMv7 |-> [platform |-> "arm", target |-> "armv7-none-linux-androideabi",
                gcc_toolchain |-> "arm-linux-androideabi", libcpp |-> "armeabi-v7a",
                gcc_bin_prefix |-> "arm-linux-androideabi"],
     ARM64 |-> [platform |-> "arm64", target |-> "aarch64-none-linux-android",
                gcc_toolchain |-> "aarch64-linux-android", libcpp |-> "arm64-v8a",
                gcc_bin_prefix |-> "aarch64-linux-android"],
     x86 |-> [platform |-> "x86", target |-> "i686-none-linux-android",
              gcc_toolchain |-> "x86", libcpp |-> "x86",
              gcc_bin_prefix |-> "i686-linux-android"],
     x64 |-> [platform |-> "x86_64", target |-> "x86_64-none-linux-android",
              gcc_toolchain |-> "x86_64", libcpp |-> "x86_64",
              gcc_bin_prefix |-> "x86_64-linux-android"]]

\* lines 49-50
GetNDKPath(os, ndkPath, paths) == OsPathJoin(os, <<ndkPath>> \o paths)

\* lines 53-57
NDKOf(os, ndkPath, archConfig, hostPlatform) ==
    [sysroot |-> GetNDKPath(os, ndkPath, <<"platforms/android-21/arch-" \o archConfig.platform>>),
     clang_toolchain |-> GetNDKPath(os, ndkPath, <<"toolchains/llvm-3.6/prebuilt", hostPlatform>>),
     gcc_toolchain |-> GetNDKPath(os, ndkPath, <<"toolchains",
                                             archConfig.gcc_toolchain \o "-4.9/prebuilt",
                                             hostPlatform>>)]

\* a check that is satisfied as soon as one NDK path is a directory
NDKPathsExist_AnyOne(files, ndk) == \E name \in DOMAIN ndk : ndk[name] \in files

\* lines 58-62: every NDK path is a directory
NDKPathsExist(files, ndk) == \A name \in DOMAIN ndk : ndk[name] \in files

\* the binary looked for in the toolchain's directory itself
GetClangToolchainBinary_NoBin(os, ndk, name) == OsPathJoin(os, <<ndk.clang_toolchain, name>>)

\* lines 66-67
GetClangToolchainBinary(os, ndk, name) == OsPathJoin(os, <<ndk.clang_toolchain, "bin", name>>)

\* the entries lines 76, 87 and 90 remove
AndroidRemovals(c) ==
    <<<<"ARFLAGS", "-S">>, <<"CCFLAGS", "-stdlib=libc++">>>>
    \o (IF c.isStrictBuild THEN <<<<"CCFLAGS", "-Wno-nullable-to-nonnull-conversion">>>>
        ELSE <<>>)

\* lines 73-102, applied to the environment Compilers/Clang.sconscript.py returned
AndroidEnv(c, clang, ndkPath, ndk, archConfig) ==
    LET os == c.osName
        sharedFlags == <<"--sysroot", ndk.sysroot, "-target", archConfig.target>>
        ccflags1 == ListRemove(clang.CCFLAGS \o sharedFlags, "-stdlib=libc++")
        ccflags2 ==
            IF c.isStrictBuild
            THEN ListRemove(ccflags1 \o <<"-Wno-c++98-compat-pedantic", "-Wno-pedantic",
                                          "-Wno-reserved-id-macro">>,
                            "-Wno-nullable-to-nonnull-conversion")
            ELSE ccflags1
    IN [AR |-> GetClangToolchainBinary(os, ndk, "llvm-ar"),
        ARFLAGS |-> ListRemove(clang.ARFLAGS, "-S"),
        AS |-> GetClangToolchainBinary(os, ndk, "llvm-as"),
        ASFLAGS |-> sharedFlags,
        CC |-> GetClangToolchainBinary(os, ndk, "clang"),
        CXX |-> GetClangToolchainBinary(os, ndk, "clang++"),
        CPPPATH |-> <<GetNDKPath(os, ndkPath, <<"sources/android/cpufeatures">>),
                      GetNDKPath(os, ndkPath, <<"sources/android/support/include">>),
                      GetNDKPath(os, ndkPath, <<"sources/cxx-stl/llvm-libc++/libcxx/include">>)>>,
        CCFLAGS |-> ccflags2,
        LIBPATH |-> <<GetNDKPath(os, ndkPath, <<"sources/cxx-stl/llvm-libc++/libs",
                                            archConfig.libcpp>>)>>,
        LIBS |-> <<"android", "c", "c++_shared", "dl", "m">>,
        LINK |-> GetClangToolchainBinary(os, ndk, "clang++"),
        LINKFLAGS |-> sharedFlags \o <<"-gcc-toolchain", ndk.gcc_toolchain>>,
        RANLIB |-> GetNDKPath(os, ndkPath, <<ndk.gcc_toolchain, "bin",
                                         archConfig.gcc_bin_prefix \o "-ranlib">>),
        METHODS |-> clang.METHODS \cup {"SetupForLinkingCarbon", "Carbonize"}]
       @@ clang

AndroidScript(c) ==
    LET me == <<"Android.sconscript.py">>
        architecture == ArgGet(c.args, "architecture", "ARMv7")
    IN
    IF c.sysPlatform \notin DOMAIN HOST_PLATFORMS THEN Raised(me, "KeyError")
    ELSE IF architecture \notin DOMAIN ARCH_CONFIGS THEN Raised(me, "KeyError")
    ELSE
      LET archConfig == ARCH_CONFIGS[architecture]
          ndk == NDKOf(c.osName, NDK_PATH(c), archConfig, HOST_PLATFORMS[c.sysPlatform])
          clang == ClangScript(c)
      IN
      IF ~NDKPathsExist(c.fs, ndk)
      THEN Exit1(me, "Error: an expected NDK path is missing")
      ELSE IF \E i \in DOMAIN AndroidRemovals(c) :
                  ~Contains(clang.value[AndroidRemovals(c)[i][1]], AndroidRemovals(c)[i][2])
      THEN Raised(me \o clang.invoked, "ValueError")
      ELSE Returned(me \o clang.invoked,
                    [platform |-> "Android", architecture |-> architecture,
                     compiler |-> "Clang",
                     env |-> AndroidEnv(c, clang.value, NDK_PATH(c), ndk, archConfig),
                     isCarbonEngineStatic |-> TRUE])

---------------------------------------------------------------------------
(* iOS.sconscript.py and iOSSimulator.sconscript.py *)

xcodePath == "/Applications/Xcode.app/Contents/Developer"
iPhoneOSSDK == xcodePath \o "/Platforms/iPhoneOS.platform/Developer/SDKs/iPhoneOS.sdk"
iPhoneSimulatorSDK ==
    xcodePath \o "/Platforms/iPhoneSimulator.platform/Developer/SDKs/iPhoneSimulator.sdk"

\* iOS.sconscript.py, line 45
iOSArchFlags == [x86 |-> "i386", x64 |-> "x86_64", ARMv7 |-> "armv7", ARM64 |-> "arm64"]

\* iOSSimulator.sconscript.py, line 38
iOSSimulatorArchFlags == [x64 |-> "x86_64", ARM64 |-> "arm64"]

\* iOS.sconscript.py, lines 45-64
iOSEnv(clang, architecture, sdkPath, versionMinFlag) ==
    LET isARM == StartsWith(architecture, "ARM")
        sharedFlags == <<"-arch", iOSArchFlags[architecture], "-isysroot", sdkPath,
                         versionMinFlag>>
    IN [ASFLAGS |-> sharedFlags \o (IF isARM THEN <<"-fembed-bitcode">> ELSE <<>>),
        CCFLAGS |-> clang.CCFLAGS \o sharedFlags \o <<"-fobjc-arc", "-fobjc-legacy-dispatch">>
                    \o (IF isARM THEN <<>> ELSE <<"-fobjc-abi-version=2">>)
                    \o (IF isARM THEN <<"-fembed-bitcode">> ELSE <<>>),
        LINKFLAGS |-> clang.LINKFLAGS \o sharedFlags
                      \o (IF isARM THEN <<>>
                          ELSE <<"-Xlinker", "-objc_abi_version", "-Xlinker", "2">>)
                      \o (IF isARM THEN <<"-fembed-bitcode">> ELSE <<>>),
        AR |-> "xcrun libtool",
        ARFLAGS |-> <<"-static">>,
        METHODS |-> clang.METHODS \cup {"SetupForLinkingCarbon", "Carbonize"}]
       @@ clang

iOSScript(c) ==
    LET me == <<"iOS.sconscript.py">>
        architecture == ArgGet(c.args, "architecture", "ARMv7")
        isARM == StartsWith(architecture, "ARM")
        sdkPath == IF isARM THEN iPhoneOSSDK ELSE iPhoneSimulatorSDK
        versionMinFlag ==
            (IF isARM THEN "-mios-version-min=" ELSE "-mios-simulator-version-min=") \o "8.0"
        clang == ClangScript(c)
    IN
    IF architecture \notin {"ARMv7", "ARM64", "x86", "x64"}
    THEN Exit1(me, "Error: invalid build architecture")
    ELSE IF sdkPath \notin c.fs
    THEN Exit1(me, "Error: could not the iOS SDK")
    ELSE Returned(me \o clang.invoked,
                  [platform |-> "iOS", architecture |-> architecture, compiler |-> "Clang",
                   env |-> iOSEnv(clang.value, architecture, sdkPath, versionMinFlag),
                   isCarbonEngineStatic |-> TRUE])

\* iOSSimulator.sconscript.py, lines 38-50
iOSSimulatorEnv(clang, architecture, sdkPath, versionMinFlag) ==
    LET sharedFlags == <<"-arch", iOSSimulatorArchFlags[architecture], "-isysroot", sdkPath,
                         versionMinFlag>>
    IN [ASFLAGS |-> sharedFlags,
        CCFLAGS |-> clang.CCFLAGS \o sharedFlags
                    \o <<"-fobjc-arc", "-fobjc-legacy-dispatch", "-fobjc-abi-version=2">>,
        LINKFLAGS |-> clang.LINKFLAGS \o sharedFlags
                      \o <<"-Xlinker", "-objc_abi_version", "-Xlinker", "2">>,
        AR |-> "xcrun libtool",
        ARFLAGS |-> <<"-static">>,
        METHODS |-> clang.METHODS \cup {"SetupForLinkingCarbon", "Carbonize"}]
       @@ clang

iOSSimulatorScript(c) ==
    LET me == <<"iOSSimulator.sconscript.py">>
        architecture == ArgGet(c.args, "architecture", "ARM64")
        versionMinFlag == "-mios-simulator-version-min=" \o "12.0"
        clang == ClangScript(c)
    IN
    IF architecture \notin {"ARM64", "x64"}
    THEN Exit1(me, "Error: invalid build architecture")
    ELSE IF iPhoneSimulatorSDK \notin c.fs
    THEN Exit1(me, "Error: could not find the iOS Simulator SDK")
    ELSE Returned(me \o clang.invoked,
                  [platform |-> "iOSSimulator", architecture |-> architecture,
                   compiler |-> "Clang",
                   env |-> iOSSimulatorEnv(clang.value, architecture, iPhoneSimulatorSDK,
                                           versionMinFlag),
                   isCarbonEngineStatic |-> TRUE])

---------------------------------------------------------------------------
(* MacOSX.sconscript.py and macOS.sconscript.py *)

MacOSXSDKs == xcodePath \o "/Platforms/MacOSX.platform/Developer/SDKs/"
sdkPrefix == MacOSXSDKs \o "MacOSX10."

\* glob.glob(prefix + '*')
Glob(files, prefix) == {path \in files : StartsWith(path, prefix)}

\* int(text) for the version numbers of the SDKs the model's file systems hold
IntOf == [t \in {"9", "11", "15"} |-> CASE t = "9" -> 9 [] t = "11" -> 11 [] t = "15" -> 15]

\* the sort key of lines 17 (MacOSX) and 19 (macOS): int(path[len(prefix):-4])
SDKVersion(path) == IntOf[SubSeq(path, Len(sdkPrefix) + 1, Len(path) - 4)]

\* sorted(paths, key=...)[-1]
LatestSDK(paths) == CHOOSE p \in paths : \A q \in paths : SDKVersion(q) <= SDKVersion(p)

\* MacOSX.sconscript.py, lines 24-26, and macOS.sconscript.py, lines 26-28
MacEnv(clang, sdk, versionMin) ==
    LET flags == <<"-arch", "x86_64", "-mmacosx-version-min=" \o versionMin,
                   "-isysroot", sdk>>
    IN [CCFLAGS |-> clang.CCFLAGS \o flags \o <<"-fobjc-arc">>,
        LINKFLAGS |-> clang.LINKFLAGS \o flags \o <<"-Wl,-syslibroot," \o sdk>>,
        METHODS |-> clang.METHODS \cup {"SetupForLinkingCarbon", "Carbonize"}]
       @@ clang

MacOSXScript(c) ==
    LET me == <<"MacOSX.sconscript.py">>
        clang == ClangScript(c)
        paths == Glob(c.fs, sdkPrefix)
    IN
    IF paths = {}
    THEN Exit1(me \o clang.invoked, "Error: failed finding Mac OS X SDK")
    ELSE Returned(me \o clang.invoked,
                  [platform |-> "MacOSX", architecture |-> "x64", compiler |-> "Clang",
                   env |-> MacEnv(clang.value, LatestSDK(paths), "10.8")])

macOSScript(c) ==
    LET me == <<"macOS.sconscript.py">>
        clang == ClangScript(c)
        macOSSDKPath == MacOSXSDKs \o "MacOSX.sdk"
        paths == Glob(c.fs, sdkPrefix)
    IN
    IF macOSSDKPath \notin c.fs /\ paths = {}
    THEN Exit1(me \o clang.invoked, "Error: failed finding macOS SDK")
    ELSE Returned(me \o clang.invoked,
                  [platform |-> "macOS", architecture |-> "x64", compiler |-> "Clang",
                   env |-> MacEnv(clang.value,
                                  IF macOSSDKPath \in c.fs THEN macOSSDKPath
                                  ELSE LatestSDK(paths),
                                  "10.14")])

---------------------------------------------------------------------------
(* Linux.sconscript.py *)

\* line 19: the output of `uname -m`
UnameM == "x86_64"

LinuxScript(c) ==
    LET me == <<"Linux.sconscript.py">>
        gcc == GCCScript(c)
        suffix == IF ArgIn(c.args, "gccversion") THEN "-" \o c.args["gccversion"] ELSE ""
    IN Returned(me \o gcc.invoked,
                [platform |-> "Linux", architecture |-> UnameM, compiler |-> "GCC",
                 env |-> [gcc.value EXCEPT !.ENV = @ \cup {"PATH"},
                                           !.CC = @ \o suffix, !.CXX = @ \o suffix,
                                           !.METHODS = @ \cup {"SetupForLinkingCarbon",
                                                               "Carbonize"}]])

---------------------------------------------------------------------------
(* Windows.sconscript.py *)

\* line 19
WindowsCompiler == "VisualStudio2022"

\* lines 27-31
WindowsSlim(c, env) ==
    IF c.buildType = "Debug" /\ ArgGet(c.args, "slim", "false") = "true"
    THEN [env EXCEPT !.CCFLAGS = ListRemove(ListRemove(@, "/Od"), "/RTC1") \o <<"/O1">>]
    ELSE env

WindowsScript(c) ==
    LET me == <<"Windows.sconscript.py">>
        architecture == ArgGet(c.args, "architecture", "x86")
        vs == VisualStudioScript(c, architecture, WindowsCompiler)
    IN
    IF architecture \notin {"x86", "x64"}
    THEN Exit1(me, "Error: invalid architecture specified")
    ELSE IF vs.status # "returned" THEN Raised(me \o vs.invoked, vs.status)
    ELSE IF /\ c.buildType = "Debug" /\ ArgGet(c.args, "slim", "false") = "true"
            /\ ~(Contains(vs.value.CCFLAGS, "/Od") /\ Contains(vs.value.CCFLAGS, "/RTC1"))
    THEN Raised(me \o vs.invoked, "ValueError")
    ELSE Returned(me \o vs.invoked,
                  [platform |-> "Windows", architecture |-> architecture,
                   compiler |-> WindowsCompiler,
                   env |-> [WindowsSlim(c, vs.value) EXCEPT
                               !.METHODS = @ \cup {"SetupForLinkingCarbon", "Carbonize"}]])

\* SConscript(platformScriptFile): the script of that name
RunPlatformScript(file, c) ==
    CASE file = "Android.sconscript.py" -> AndroidScript(c)
      [] file = "iOS.sconscript.py" -> iOSScript(c)
      [] file = "iOSSimulator.sconscript.py" -> iOSSimulatorScript(c)
      [] file = "Linux.sconscript.py" -> LinuxScript(c)
      [] file = "MacOSX.sconscript.py" -> MacOSXScript(c)
      [] file = "macOS.sconscript.py" -> macOSScript(c)
      [] file = "Windows.sconscript.py" -> WindowsScript(c)

---------------------------------------------------------------------------
(* Shared.sconscript.py: the helpers exported to the platform scripts *)

\* The directory of the SConstruct file ('#') and its parent ('#/..')
Top == "/carbon"
TopParent == "/"

\* str(Dir(candidate).srcnode())
DirPath(candidate) ==
    CASE candidate = "#/Dependencies" -> Join2("posix", Top, "Dependencies")
      [] candidate = "#/.." -> TopParent
      [] OTHER -> AbsPath(candidate)

RECURSIVE LastSlash(_, _, _)
LastSlash(os, path, i) ==
    IF i = 0 THEN 0
    ELSE IF SubSeq(path, i, i) = "/" \/ (os = "nt" /\ SubSeq(path, i, i) = "\\") THEN i
    ELSE LastSlash(os, path, i - 1)

\* os.path.basename(path)
Basename(os, path) == SubSeq(path, LastSlash(os, path, Len(path)) + 1, Len(path))

\* lines 41-52: the candidate found, or None (the caller then prints and exits)
GetDependenciesPath(c) ==
    LET candidates ==
            IF ArgIn(c.args, "carbonroot")
            THEN <<OsPathJoin(c.osName, <<c.args["carbonroot"], "Dependencies">>)>>
            ELSE <<"#/Dependencies", "#/..">>
        ok(i) == /\ DirPath(candidates[i]) \in c.fs
                 /\ Basename(c.osName, DirPath(candidates[i])) = "Dependencies"
    IN IF \E i \in DOMAIN candidates : ok(i)
       THEN candidates[CHOOSE i \in DOMAIN candidates :
                           ok(i) /\ \A j \in DOMAIN candidates : ok(j) => i <= j]
       ELSE None

\* lines 59-63
defaultVersions ==
    [AngelScript |-> "2.30.2", Bullet |-> "2.83", FreeImage |-> "3.17.0",
     FreeType |-> "2.6.1", Max |-> "", Maya |-> "", OculusRift |-> "0.8", Ogg |-> "1.3.2",
     OpenALSoft |-> "1.16.0", OpenAssetImport |-> "3.1.1", PhysX |-> "3.3.2",
     Vorbis |-> "1.3.5", ZLib |-> "1.2.8"]

\* the version keyword taken as it is, lines 66-67 left out
GetDependencyPath_NoDefault(os, dependenciesPath, dependency, paths, version) ==
    LET v == IF version = None THEN "" ELSE version
    IN OsPathJoin(os, <<dependenciesPath, dependency \o "-" \o v>> \o paths)

\* lines 58-69, with the Dependencies directory found; version is None when no version
\* keyword is given
GetDependencyPath(os, dependenciesPath, dependency, paths, version) ==
    LET v == IF version = None \/ version = "" THEN defaultVersions[dependency] ELSE version
    IN OsPathJoin(os, <<dependenciesPath, dependency \o "-" \o v>> \o paths)

\* the library directory of each dependency, the platform's subdirectory left out
GetDependencyLIBPATH_NoPlatform(os, dependenciesPath, platform, architecture, dependencies) ==
    [i \in DOMAIN dependencies |->
        GetDependencyPath(os, dependenciesPath, dependencies[i], <<"Library">>, None)]

\* lines 104-108, read with the globals platform and architecture of lines 154-155
GetDependencyLIBPATH(os, dependenciesPath, platform, architecture, dependencies) ==
    [i \in DOMAIN dependencies |->
        GetDependencyPath(os, dependenciesPath, dependencies[i],
                          IF platform = "iOS" THEN <<"Library", platform>>
                          ELSE <<"Library", platform, architecture>>,
                          None)]

\* the static= argument consulted before the descriptor's value
IsCarbonEngineStatic_ArgumentFirst(c, targets, details) ==
    IF (details.platform = "Linux" \/ details.platform = "MacOSX") /\ "install" \in targets
    THEN IF ArgGet(c.args, "static", "") = "true"
         THEN Exit1(<<>>, "Error: the 'install' target should not be used when building with static=true")
         ELSE Returned(<<>>, FALSE)
    ELSE Returned(<<>>, IF ArgIn(c.args, "static") THEN c.args.static = "true"
                        ELSE IF "isCarbonEngineStatic" \in DOMAIN details
                        THEN details.isCarbonEngineStatic
                        ELSE TRUE)

\* lines 173-181: how a call of IsCarbonEngineStatic() ends
IsCarbonEngineStatic(c, targets, details) ==
    IF (details.platform = "Linux" \/ details.platform = "MacOSX") /\ "install" \in targets
    THEN IF ArgGet(c.args, "static", "") = "true"
         THEN Exit1(<<>>, "Error: the 'install' target should not be used when building with static=true")
         ELSE Returned(<<>>, FALSE)
    ELSE Returned(<<>>, IF "isCarbonEngineStatic" \in DOMAIN details
                        THEN details.isCarbonEngineStatic
                        ELSE ArgGet(c.args, "static", "true") = "true")

\* line 281-283
InstallDir(os, details, type) ==
    LET items == <<details.platform, details.architecture, details.compiler, type>>
        kept == SelectSeq(items, LAMBDA item : item # "")
    IN OsPathJoin(os, <<"#/Build", OsPathJoin(os, kept)>>)

---------------------------------------------------------------------------
(* Carbonize and SetupForLinkingCarbon of the platform scripts. A call k   *)
(* carries the context c, the command-line targets, the Platform           *)
(* Descriptor, the names the platform script imported (its globals) and    *)
(* the keywords of the call. A method yields how it ended, what it printed *)
(* and the environment as it left it.                                      *)

Done(env) == [status |-> "returned", out |-> <<>>, env |-> env]
Failed(how, message, env) == [status |-> how, out |-> message, env |-> env]

\* the next statements run only when the ones before them returned
Then(r, rest(_)) ==
    IF r.status # "returned" THEN r
    ELSE LET n == rest(r.env) IN [n EXCEPT !.out = r.out \o @]

\* 'CarbonEngine' + {True: 'Debug', False: ''}[isDebugBuild]
EngineLibrary(name, k) == name \o (IF k.c.isDebugBuild THEN "Debug" ELSE "")

\* self.Append(**keywords); self.SetupPrecompiledHeader(keywords), for keywords that
\* name no precompiled header
AppendKeywords(self, k) ==
    LET keys == CHOOSE seq \in [1..Cardinality(DOMAIN k.keywords) -> DOMAIN k.keywords] :
                    \A key \in DOMAIN k.keywords : \E i \in DOMAIN seq : seq[i] = key
        RECURSIVE go(_, _)
        go(env, i) == IF i > Len(keys) THEN env
                      ELSE go(EnvAppend(env, keys[i], k.keywords[keys[i]]), i + 1)
    IN Done(go(self, 1))

\* self['LIBPATH'] += GetDependencyLIBPATH(*dependencies): the Dependencies directory is
\* looked up once per dependency, and not at all for an empty list
AddDependencyLIBPATH(self, k, dependencies) ==
    IF dependencies = <<>> THEN Done(self)
    ELSE IF GetDependenciesPath(k.c) = None
    THEN Failed("Exit(1)", <<"Error: unable to locate the Dependencies directory">>, self)
    ELSE Done([self EXCEPT !.LIBPATH = @ \o
                   GetDependencyLIBPATH(k.c.osName, GetDependenciesPath(k.c),
                                        k.details.platform, k.details.architecture,
                                        dependencies)])

\* A call of the shared layer's IsCarbonEngineStatic from a platform script: by its
\* global name (IsCarbonEngineStatic()), looked up in the script's globals, or as a
\* method of the environment (self.IsCarbonEngineStatic()), looked up among the
\* methods added to it
CallIsCarbonEngineStatic(how, self, k) ==
    IF how = "global" /\ "IsCarbonEngineStatic" \notin k.imported
    THEN Raised(<<>>, "NameError")
    ELSE IF how = "method" /\ "IsCarbonEngineStatic" \notin self.METHODS
    THEN Raised(<<>>, "AttributeError")
    ELSE IsCarbonEngineStatic(k.c, k.targets, k.details)

\* Android.sconscript.py, lines 106-110
AndroidSetupForLinkingCarbon(self, k) ==
    LET dependencies == <<"AngelScript", "Bullet", "FreeImage", "OpenALSoft",
                          "OpenAssetImport", "Vorbis", "ZLib">>
    IN Then(AddDependencyLIBPATH(self, k, dependencies),
            LAMBDA env : Done([env EXCEPT !.LIBS = @ \o dependencies
                                                     \o <<"GLESv2", "log", "OpenSLES">>]))

\* Android.sconscript.py, lines 116-128
AndroidCarbonize(self, k) ==
    LET env1 == [self EXCEPT !.LIBS = @ \o <<EngineLibrary("CarbonEngine", k)>>]
        carbonroot == ArgGet(k.c.args, "carbonroot", None)
    IN IF carbonroot # None /\ carbonroot # ""
       THEN Then(AndroidSetupForLinkingCarbon(
                     [env1 EXCEPT !.CPPPATH = @ \o <<OsPathJoin(k.c.osName,
                                                        <<carbonroot, "Source">>)>>,
                                  !.LIBPATH = @ \o <<OsPathJoin(k.c.osName,
                                                        <<carbonroot, "Build/Android",
                                                          k.details.architecture, "Clang",
                                                          k.c.buildType>>)>>], k),
                 LAMBDA env : AppendKeywords(env, k))
       ELSE Failed("TypeError", <<>>, env1)

\* iOS.sconscript.py, lines 68-76, and iOSSimulator.sconscript.py, lines 54-62
iOSSetupForLinkingCarbon(self, k, dependencies) ==
    Then(AddDependencyLIBPATH(self, k, dependencies),
         LAMBDA env : Done([env EXCEPT
             !.LIBS = @ \o dependencies,
             !.FRAMEWORKS = @ \o <<"CoreGraphics", "Foundation", "GameKit", "OpenAL",
                                   "OpenGLES", "QuartzCore", "StoreKit", "UIKit">>]))

iOSDefaultDependencies ==
    <<"AngelScript", "Bullet", "FreeImage", "OpenAssetImport", "Vorbis", "ZLib">>

\* iOS.sconscript.py, lines 82-95, and iOSSimulator.sconscript.py, lines 68-81
\* (buildDir is 'Build/iOS' or 'Build/iOSSimulator', sdkLibrary the SDK's library)
iOSCarbonize(self, k, buildDir, sdkLibrary) ==
    IF ArgIn(k.c.args, "carbonroot")
    THEN Then(iOSSetupForLinkingCarbon(
                  [self EXCEPT
                      !.CPPPATH = @ \o <<OsPathJoin(k.c.osName,
                                             <<k.c.args["carbonroot"], "Source">>)>>,
                      !.LIBPATH = @ \o <<OsPathJoin(k.c.osName,
                                             <<k.c.args["carbonroot"], buildDir,
                                               k.details.architecture, "Clang",
                                               k.c.buildType>>)>>,
                      !.LIBS = @ \o <<EngineLibrary("CarbonEngine", k)>>],
                  k, iOSDefaultDependencies),
              LAMBDA env : AppendKeywords(env, k))
    ELSE Then(iOSSetupForLinkingCarbon(
                  [self EXCEPT
                      !.CPPPATH = @ \o <<"/Applications/Carbon SDK/Include">>,
                      !.LIBPATH = @ \o <<"/Applications/Carbon SDK/Library">>,
                      !.LIBS = @ \o <<EngineLibrary(sdkLibrary, k)>>],
                  k, <<>>),
              LAMBDA env : AppendKeywords(env, k))

\* Linux.sconscript.py, lines 29-35
LinuxSetupForLinkingCarbon(self, k, dependencies) ==
    Then(AddDependencyLIBPATH(self, k, dependencies),
         LAMBDA env : Done([env EXCEPT
             !.LIBS = @ \o <<"dl", "GL", "openal", "pthread", "SDL2", "udev", "X11",
                             "Xinerama">> \o dependencies]))

LinuxDefaultDependencies ==
    <<"AngelScript", "Bullet", "FreeImage", "FreeType", "OpenAssetImport", "Vorbis", "ZLib">>

\* MacOSX.sconscript.py, lines 31-38, and macOS.sconscript.py, lines 33-40
MacSetupForLinkingCarbon(self, k, dependencies) ==
    Then(AddDependencyLIBPATH(self, k, dependencies),
         LAMBDA env : Done([env EXCEPT
             !.LIBS = @ \o <<"iconv">> \o dependencies,
             !.FRAMEWORKS = @ \o <<"Cocoa", "GameKit", "IOKit", "OpenAL", "OpenGL",
                                   "StoreKit">>]))

MacDefaultDependencies ==
    <<"AngelScript", "Bullet", "FreeImage", "FreeType", "OpenAssetImport", "PhysX",
      "Vorbis", "ZLib">>

\* self.SetupForLinkingCarbon(...): the method the script itself added
PosixSetupForLinkingCarbon(setup, self, k, dependencies) ==
    IF setup = "Linux" THEN LinuxSetupForLinkingCarbon(self, k, dependencies)
    ELSE MacSetupForLinkingCarbon(self, k, dependencies)

\* The shape Carbonize has in Linux.sconscript.py (lines 41-60), MacOSX.sconscript.py
\* (lines 44-64) and macOS.sconscript.py (lines 46-66): how names the way the script
\* calls IsCarbonEngineStatic, buildPath the components of the library path under
\* carbonroot, sdkCPPPATH and sdkLIBPATH the installed SDK's paths, setup the script's
\* SetupForLinkingCarbon and defaults its default dependencies. IsCarbonEngineStatic
\* is evaluated again at each use.
PosixCarbonize(self, k, how, buildPath, sdkCPPPATH, sdkLIBPATH, setup, defaults) ==
    LET static(env) == CallIsCarbonEngineStatic(how, env, k)
        ifStatic(env, body(_)) ==
            IF static(env).status # "returned"
            THEN Failed(static(env).status, static(env).out, env)
            ELSE IF static(env).value THEN body(env) ELSE Done(env)
        engineLibrary == "CarbonEngine" \o (IF k.c.buildType = "Debug" THEN "Debug" ELSE "")
    IN
    Then(ifStatic(self, LAMBDA env :
                      Done([env EXCEPT !.CPPDEFINES = @ \o <<"CARBON_STATIC_LIBRARY">>])),
    LAMBDA env1 :
    Then(Done([env1 EXCEPT !.LIBS = @ \o <<engineLibrary>>]),
    LAMBDA env2 :
    Then(IF ArgIn(k.c.args, "carbonroot")
         THEN ifStatic([env2 EXCEPT
                           !.CPPPATH = @ \o <<OsPathJoin(k.c.osName,
                                                  <<k.c.args["carbonroot"], "Source">>)>>,
                           !.LIBPATH = @ \o <<OsPathJoin(k.c.osName,
                                                  <<k.c.args["carbonroot"]>> \o buildPath
                                                  \o <<k.c.buildType>>)>>],
                       LAMBDA env : PosixSetupForLinkingCarbon(setup, env, k, defaults))
         ELSE ifStatic([env2 EXCEPT !.CPPPATH = @ \o sdkCPPPATH,
                                    !.LIBPATH = @ \o sdkLIBPATH],
                       LAMBDA env : PosixSetupForLinkingCarbon(setup, env, k, <<>>)),
    LAMBDA env3 : AppendKeywords(env3, k))))

LinuxCarbonize(self, k) ==
    PosixCarbonize(self, k, "global", <<"Build", "Linux", k.details.architecture, "GCC">>,
                   <<>>, <<>>, "Linux", LinuxDefaultDependencies)

MacOSXCarbonize(self, k) ==
    PosixCarbonize(self, k, "method", <<"Build", "MacOSX", "x64", "Clang">>,
                   <<"/Applications/Carbon SDK/Include">>,
                   <<"/Applications/Carbon SDK/Library">>,
                   "Mac", MacDefaultDependencies)

macOSCarbonize(self, k) ==
    PosixCarbonize(self, k, "method", <<"Build", "macOS", "x64", "Clang">>,
                   <<"/Applications/Carbon SDK/Include">>,
                   <<"/Applications/Carbon SDK/Library">>,
                   "Mac", MacDefaultDependencies)

\* os.environ['CARBON_SDK_PATH'] when it is set
CarbonSDKPath == "C:\\CarbonSDK"

\* Windows.sconscript.py, lines 36-38
WindowsSetupForLinkingCarbon(self, k) ==
    AddDependencyLIBPATH(self, k, <<"AngelScript", "Bullet", "FreeImage", "FreeType",
                                    "OpenALSoft", "OpenAssetImport", "OculusRift",
                                    "Vorbis", "ZLib">>)

\* Windows.sconscript.py, lines 45-54
WindowsCarbonPaths(self, k) ==
    IF ArgIn(k.c.args, "carbonroot")
    THEN Done([self EXCEPT
                  !.CPPPATH = @ \o <<OsPathJoin(k.c.osName,
                                         <<k.c.args["carbonroot"], "Source">>)>>,
                  !.LIBPATH = @ \o <<OsPathJoin(k.c.osName,
                                         <<k.c.args["carbonroot"], "Build/Windows",
                                           k.details.architecture, k.details.compiler,
                                           k.c.buildType>>)>>])
    ELSE IF "CARBON_SDK_PATH" \notin k.c.environ
    THEN Failed("Exit(1)", <<"Error: there is no Carbon SDK installed">>, self)
    ELSE Done([self EXCEPT
                  !.CPPPATH = @ \o <<OsPathJoin(k.c.osName, <<CarbonSDKPath, "Include">>)>>,
                  !.LIBPATH = @ \o <<OsPathJoin(k.c.osName, <<CarbonSDKPath, "Library">>)>>])

\* Windows.sconscript.py, lines 56-62
WindowsStaticSetup(self, k) ==
    LET static == CallIsCarbonEngineStatic("method", self, k) IN
    IF static.status # "returned" THEN Failed(static.status, static.out, self)
    ELSE IF ~static.value THEN Done(self)
    ELSE Then(WindowsSetupForLinkingCarbon(
                  [self EXCEPT !.CPPDEFINES = @ \o <<"CARBON_STATIC_LIBRARY">>], k),
              LAMBDA env :
                  IF ~ArgIn(k.c.args, "carbonroot")
                  THEN Failed("Exit(1)",
                              <<"Error: using a static library build of Carbon on Windows requires that carbonroot be specified">>,
                              env)
                  ELSE Done(env))

\* Windows.sconscript.py, lines 44-66
WindowsCarbonize(self, k) ==
    Then(WindowsCarbonPaths(self, k),
    LAMBDA env1 :
    Then(WindowsStaticSetup(env1, k),
    LAMBDA env2 :
    AppendKeywords([env2 EXCEPT !.LINKFLAGS = @ \o <<"/SUBSYSTEM:WINDOWS">>], k)))

\* e.Carbonize(**keywords): the method the platform script added to the environment
Carbonize(self, k) ==
    CASE k.details.platform = "Android" -> AndroidCarbonize(self, k)
      [] k.details.platform = "iOS" -> iOSCarbonize(self, k, "Build/iOS", "CarbonEngineiOS")
      [] k.details.platform = "iOSSimulator" ->
             iOSCarbonize(self, k, "Build/iOSSimulator", "CarbonEngineiOSSimulator")
      [] k.details.platform = "Linux" -> LinuxCarbonize(self, k)
      [] k.details.platform = "MacOSX" -> MacOSXCarbonize(self, k)
      [] k.details.platform = "macOS" -> macOSCarbonize(self, k)
      [] k.details.platform = "Windows" -> WindowsCarbonize(self, k)

---------------------------------------------------------------------------
(* The runs of the configuration pass that are explored: three families,   *)
(* each varying the inputs one part of the pass reads and leaving the      *)
(* others at their defaults.                                               *)

\* the number of calls a project description makes on the configured environment
MaxCalls == 2

HostPlatformNames == {HOST_PLATFORMS[h] : h \in DOMAIN HOST_PLATFORMS}

\* the NDK directories of a complete NDK installation, as the host spells them
NDKDirs(os, kinds) ==
    {NDKOf(os, EnvNDKPath, ARCH_CONFIGS[a], h)[kind] :
        a \in DOMAIN ARCH_CONFIGS, h \in HostPlatformNames, kind \in kinds}

OldMacOSXSDKs == {sdkPrefix \o "9.sdk", sdkPrefix \o "11.sdk"}
XcodeSDKs == {iPhoneOSSDK, iPhoneSimulatorSDK, MacOSXSDKs \o "MacOSX.sdk"} \cup OldMacOSXSDKs

DependenciesDirs(os) == {Join2("posix", Top, "Dependencies"),
                         AbsPath(OsPathJoin(os, <<"/carbon", "Dependencies">>))}

\* a host with everything installed
FullFS(os) ==
    ScriptFiles \cup NDKDirs(os, {"sysroot", "clang_toolchain", "gcc_toolchain"})
    \cup XcodeSDKs \cup DependenciesDirs(os)

\* the file systems a platform script is run on: complete, or with one kind of path
\* that script requires missing
FileSystems(platform, os) ==
    {FullFS(os)} \cup
    CASE platform = "Android" ->
             {FullFS(os) \ NDKDirs(os, {kind}) :
                 kind \in {"sysroot", "clang_toolchain", "gcc_toolchain"}}
      [] platform \in {"iOS", "iOSSimulator"} -> {FullFS(os) \ XcodeSDKs}
      [] platform \in {"MacOSX", "macOS"} ->
             {FullFS(os) \ XcodeSDKs, FullFS(os) \ {MacOSXSDKs \o "MacOSX.sdk"}}
      [] OTHER -> {}

DefaultEnviron == {"PATH", "CARBON_ANDROID_NDK_PATH", "TERM"}

ArchitectureValues(platform) ==
    IF platform \in {"Android", "iOS", "iOSSimulator", "Windows"}
    THEN {Absent, "ARMv7", "ARM64", "x86", "x64", "MIPS"}
    ELSE {Absent}

Run(args, targets, host, envvars, files) ==
    [ARGUMENTS |-> args, COMMAND_LINE_TARGETS |-> targets, osName |-> host[1],
     sysPlatform |-> host[2], environ |-> envvars, fs |-> files]

\* how the platform script is chosen
SelectionRuns ==
    {Run([NoArguments EXCEPT !.platformscript = ps, !.platform = p, !.type = t],
         {}, host, DefaultEnviron, FullFS(host[1])) :
        ps \in {Absent, "", "macOS.sconscript.py", "Missing.sconscript.py"},
        p \in {Absent, "Haiku"} \cup Platforms,
        t \in {Absent, "Debug", "Fast"},
        host \in Hosts}

\* what the platform script and the compiler scripts read
PlatformRunsOf(p, host) ==
    {Run([NoArguments EXCEPT !.platform = p, !.architecture = a, !.type = o[1],
                             !.strict = o[2], !.slim = o[3], !.gccversion = o[4]],
         {}, host, envvars, files) :
        a \in ArchitectureValues(p),
        o \in {Absent, "Debug"} \X {Absent, "true"}
              \X (IF p = "Windows" THEN {Absent, "true"} ELSE {Absent})
              \X (IF p = "Linux" THEN {Absent, "9"} ELSE {Absent}),
        envvars \in IF p \in {"Linux", "Windows"} THEN {DefaultEnviron}
                    ELSE {DefaultEnviron, DefaultEnviron \ {"TERM"}},
        files \in FileSystems(p, host[1])}

PlatformRuns == UNION {PlatformRunsOf(p, host) : p \in Platforms, host \in Hosts}

\* what Carbonize and IsCarbonEngineStatic read
LinkRunsOf(p, host) ==
    {Run([NoArguments EXCEPT !.platform = p, !.architecture = a, !.type = o[1],
                             !.static = o[2], !.carbonroot = o[3]],
         targets, host, envvars, files) :
        a \in IF p = "Android" THEN {Absent, "ARM64"} ELSE {Absent},
        o \in {Absent, "Debug"} \X {Absent, "true", "false"} \X {Absent, "", "/carbon"},
        targets \in {{}, {"install"}},
        envvars \in IF p = "Windows"
                    THEN {DefaultEnviron, DefaultEnviron \cup {"CARBON_SDK_PATH"}}
                    ELSE {DefaultEnviron},
        files \in {FullFS(host[1]), FullFS(host[1]) \ DependenciesDirs(host[1])}}

LinkRuns == UNION {LinkRunsOf(p, host) : p \in Platforms, host \in Hosts}

Runs == SelectionRuns \cup PlatformRuns \cup LinkRuns

\* the keywords a project description passes to CarbonProgram
KeywordChoices == {<<>>, [CPPDEFINES |-> <<"GAME">>], [LIBS |-> <<"game">>]}

---------------------------------------------------------------------------
(* The configuration pass *)

inputVars == <<ARGUMENTS, COMMAND_LINE_TARGETS, osName, sysPlatform, environ, fs>>

\* the context of the running pass
Ctx == Context(ARGUMENTS, osName, sysPlatform, environ, fs, buildType)

\* the emitters and the header closure are not part of a configuration pass
PCHIdle == includes = <<>> /\ gch = Unbound /\ todo = {} /\ depends = {} /\ objects = {}
HdrIdle ==
    /\ graph = <<>>
    /\ explicit = <<>>
    /\ stack = <<>>
    /\ result = {}
    /\ scans = <<>>
    /\ hpc = "idle"

\* no call of GetDependencyPath has been made
DepIdle == depCalls = <<>> /\ depTable = defaultVersions

\* no environment has been handed to UsePrecompiledHeader
UseIdle ==
    /\ useEnv = Unbound
    /\ artifacts = <<>>
    /\ commands = <<>>
    /\ upc = "idle"
    /\ ucall = Unbound

\* the configuration pass has not been started
CfgIdle ==
    /\ ARGUMENTS = NoArguments
    /\ COMMAND_LINE_TARGETS = {}
    /\ osName = "posix"
    /\ sysPlatform = "linux2"
    /\ environ = {}
    /\ fs = {}
    /\ pc = "idle"
    /\ status = "running"
    /\ stdout = <<>>
    /\ invoked = <<>>
    /\ exports = {}
    /\ buildType = None
    /\ platformScriptFile = None
    /\ platformScript = Unbound
    /\ imported = {}
    /\ baseEnv = Unbound
    /\ installDir = None
    /\ e = Unbound
    /\ calls = 0
    /\ returned = <<>>

Init ==
    /\ \E run \in Runs :
        /\ ARGUMENTS = run.ARGUMENTS
        /\ COMMAND_LINE_TARGETS = run.COMMAND_LINE_TARGETS
        /\ osName = run.osName
        /\ sysPlatform = run.sysPlatform
        /\ environ = run.environ
        /\ fs = run.fs
    /\ pc = "parse"
    /\ status = "running"
    /\ stdout = <<>>
    /\ invoked = <<>>
    /\ exports = {}
    /\ buildType = None
    /\ platformScriptFile = None
    /\ platformScript = Unbound
    /\ imported = {}
    /\ baseEnv = Unbound
    /\ installDir = None
    /\ e = Unbound
    /\ calls = 0
    /\ returned = <<>>
    /\ PCHIdle
    /\ HdrIdle
    /\ DepIdle
    /\ UseIdle

\* the pass ends: Exit(1), or an exception nobody catches
Stop(how, messages) ==
    /\ status' = how
    /\ stdout' = stdout \o messages
    /\ pc' = "done"

\* the names Shared.sconscript.py exports in lines 37-126
HelperExports ==
    {"buildType", "isDebugBuild", "isReleaseBuild", "isStrictBuild", "GetDependenciesPath",
     "GetDependencyPath", "GetDependencyCPPDEFINES", "GetDependencyCPPPATH",
     "GetDependencyLIBPATH", "GetCarbonEngineBuildResult", "SetCarbonEngineBuildResult"}

\* the names Shared.sconscript.py exports in lines 157-309
LateExports ==
    {"platformScript", "platform", "architecture", "compiler", "Is64Bit",
     "IsCarbonEngineStatic", "carbonEngineLibraryName", "baseEnv", "baseVariantDir",
     "installDir", "BuildCarbonProgram", "CarbonSConscript"}

\* Shared.sconscript.py, lines 29-126
ParseArguments ==
    /\ pc = "parse"
    /\ buildType' = ArgGet(ARGUMENTS, "type", "Release")
    /\ IF buildType' \notin {"Debug", "Release"}
       THEN /\ Stop("Exit(1)", <<"Error: the build type must either Debug or Release">>)
            /\ UNCHANGED exports
       ELSE /\ exports' = exports \cup HelperExports
            /\ pc' = "select"
            /\ UNCHANGED <<status, stdout>>
    /\ UNCHANGED <<inputVars, invoked, platformScriptFile, platformScript, imported, baseEnv,
                   installDir, e, calls, returned, pchVars, hdrVars, depVars, useVars>>

\* a selection that lets platform= override platformscript=
PlatformScriptFileOf_PlatformFirst(args, os, sysP) ==
    IF ArgIn(args, "platform") THEN args["platform"] \o ".sconscript.py"
    ELSE IF ArgIn(args, "platformscript") THEN args["platformscript"]
    ELSE IF os = "nt" THEN "Windows.sconscript.py"
    ELSE IF sysP = "darwin" THEN "MacOSX.sconscript.py"
    ELSE IF sysP = "linux2" THEN "Linux.sconscript.py"
    ELSE None

\* lines 133-143: the script named by the arguments or the host, None when none is
PlatformScriptFileOf(args, os, sysP) ==
    IF ArgIn(args, "platformscript") THEN args["platformscript"]
    ELSE IF ArgIn(args, "platform") THEN args["platform"] \o ".sconscript.py"
    ELSE IF os = "nt" THEN "Windows.sconscript.py"
    ELSE IF sysP = "darwin" THEN "MacOSX.sconscript.py"
    ELSE IF sysP = "linux2" THEN "Linux.sconscript.py"
    ELSE None

\* lines 133-148
SelectPlatformScript ==
    /\ pc = "select"
    /\ platformScriptFile' = PlatformScriptFileOf(ARGUMENTS, osName, sysPlatform)
    /\ IF platformScriptFile' \in {None, ""} \/ platformScriptFile' \notin fs
       THEN Stop("Exit(1)", <<"Unable to find a build script for the specified platform">>)
       ELSE pc' = "invoke" /\ UNCHANGED <<status, stdout>>
    /\ UNCHANGED <<inputVars, invoked, exports, buildType, platformScript, imported, baseEnv,
                   installDir, e, calls, returned, pchVars, hdrVars, depVars, useVars>>

\* line 151: the platform script runs to its end; Import('*') at its top copies the
\* names exported so far into its globals
InvokePlatformScript ==
    /\ pc = "invoke"
    /\ LET run == RunPlatformScript(platformScriptFile, Ctx) IN
        /\ invoked' = invoked \o run.invoked
        /\ imported' = exports
        /\ IF run.status = "returned"
           THEN /\ platformScript' = run.value
                /\ pc' = "finish"
                /\ UNCHANGED <<status, stdout>>
           ELSE /\ Stop(run.status, run.out)
                /\ UNCHANGED platformScript
    /\ UNCHANGED <<inputVars, exports, buildType, platformScriptFile, baseEnv, installDir,
                   e, calls, returned, pchVars, hdrVars, depVars, useVars>>

\* the methods lines 226-275 add to baseEnv (UsePrecompiledHeader only when the
\* compiler script added none)
SharedMethods ==
    {"GlobDirectories", "GetDependentHeaders", "SetupPrecompiledHeader", "CarbonProgram"}

\* lines 160-161 and 226-275
BaseEnvOf(details) ==
    LET env == EnvAppend(EnvAppend(EnvAppend(EnvAppend(details.env,
                   "CPPDEFINES", <<>>), "CPPPATH", <<>>), "LIBPATH", <<>>), "LIBS", <<>>)
    IN [env EXCEPT !.METHODS = @ \cup SharedMethods \cup {"UsePrecompiledHeader"}]

\* lines 154-311
FinishShared ==
    /\ pc = "finish"
    /\ baseEnv' = BaseEnvOf(platformScript)
    /\ exports' = exports \cup LateExports
    /\ installDir' = InstallDir(osName, platformScript, buildType)
    /\ pc' = "ready"
    /\ UNCHANGED <<inputVars, status, stdout, invoked, buildType, platformScriptFile,
                   platformScript, imported, e, calls, returned, pchVars, hdrVars, depVars, useVars>>

\* the call a method of the configured environment is made with
CallOf(keywords) ==
    [c |-> Ctx, targets |-> COMMAND_LINE_TARGETS, details |-> platformScript,
     imported |-> imported, keywords |-> keywords]

\* the lists an environment holds that Carbonize and Append(**keywords) extend in place
ListKeys == {"CPPDEFINES", "CPPPATH", "LIBPATH", "LIBS", "FRAMEWORKS", "CCFLAGS", "LINKFLAGS"}

\* a copy of the dictionary alone: the clone's lists are the original's
Clone_Shallow(env) == [env |-> env, shared |-> ListKeys \cap DOMAIN env]

\* env.Clone(): SCons copies the dictionary and every list in it, so the clone shares
\* no list with the original; shared names the keys whose list is the original's
Clone(env) == [env |-> env, shared |-> {}]

\* lines 270-273: a project description calls baseEnv.CarbonProgram(program, sources,
\* **keywords), directly or through BuildCarbonProgram
CarbonProgram ==
    /\ pc = "ready"
    /\ calls < MaxCalls
    /\ \E keywords \in KeywordChoices :
        LET clone == Clone(baseEnv)
            done == Carbonize(clone.env, CallOf(keywords))
        IN
        /\ e' = done.env
        \* what is appended to a list the clone shares is appended to baseEnv's list
        /\ baseEnv' = [key \in DOMAIN baseEnv |->
                           IF key \in clone.shared /\ key \in DOMAIN done.env
                           THEN done.env[key] ELSE baseEnv[key]]
        /\ IF done.status = "returned"
           THEN UNCHANGED <<pc, status, stdout>>
           ELSE Stop(done.status, done.out)
    /\ calls' = calls + 1
    /\ UNCHANGED <<inputVars, invoked, exports, buildType, platformScriptFile,
                   platformScript, imported, installDir, returned, pchVars, hdrVars, depVars, useVars>>

\* a project description calls the exported IsCarbonEngineStatic()
EvaluateIsCarbonEngineStatic ==
    /\ pc = "ready"
    /\ calls < MaxCalls
    /\ LET done == IsCarbonEngineStatic(Ctx, COMMAND_LINE_TARGETS, platformScript) IN
        /\ returned' = IF done.status = "returned" THEN <<done.value>> ELSE <<>>
        /\ IF done.status = "returned"
           THEN UNCHANGED <<pc, status, stdout>>
           ELSE Stop(done.status, done.out)
    /\ calls' = calls + 1
    /\ UNCHANGED <<inputVars, invoked, exports, buildType, platformScriptFile,
                   platformScript, imported, baseEnv, installDir, e, pchVars, hdrVars, depVars, useVars>>

Next ==
    \/ ParseArguments
    \/ SelectPlatformScript
    \/ InvokePlatformScript
    \/ FinishShared
    \/ CarbonProgram
    \/ EvaluateIsCarbonEngineStatic

Spec == Init /\ [][Next]_vars

---------------------------------------------------------------------------
(* Compilers/GCCPrecompiledHeader.py: the object emitters, run by SCons once  *)
(* for every object a project description asks for. A node is a file in the   *)
(* source tree or its duplicate in the variant (build) directory.             *)

TranslationUnits == {"a.cpp", "b.cpp"}
Headers == {"pch.h", "x.h"}
Dirs == {"src", "build"}

Node(dir, name) == [dir |-> dir, name |-> name]

\* Node.srcnode(): the file of the source tree a node stands for
srcnode(node) == [node EXCEPT !.dir = "src"]

\* str(node): the node's path
str(node) == IF node.dir = "build" THEN ".build/" \o node.name ELSE node.name

\* scanner(source[0], env, scanner.path(env)): the nodes of the files the node's own
\* text includes; the files those include are left to the build's later walk
CScanner(inc, node) == {Node(node.dir, h) : h \in inc[node.name]}

\* the artifact self.Gch(header)[0] / self.GchSh(header)[0] builds
GchNode(header, shared) ==
    [dir |-> header.dir, name |-> header.name \o ".gch", sources |-> <<header>>,
     shared |-> shared]

\* the emitter always adds the dependency when GCH is set
sourceDependsOnPrecompiledHeader_Always(inc, source, GCH) == GCH # Unbound

\* lines 14-23
sourceDependsOnPrecompiledHeader(inc, source, GCH) ==
    IF GCH = Unbound THEN FALSE
    ELSE LET precompiledHeaderSourceFile == str(srcnode(GCH.sources[1]))
             sourceDependencies == {str(srcnode(x)) : x \in CScanner(inc, source[1])}
         IN precompiledHeaderSourceFile \in sourceDependencies

\* the target SCons.Defaults.StaticObjectEmitter / SharedObjectEmitter is handed
ObjectNode(source, suffix) ==
    Node(source.dir, SubSeq(source.name, 1, Len(source.name) - Len(".cpp")) \o suffix)

\* lines 26-32 and 35-41
ObjectPCHEmitter(kind, suffix) ==
    \E source \in {<<node>> : node \in {t[1] : t \in {t \in todo : t[2] = kind}}} :
        LET target == ObjectNode(source[1], suffix)
        IN /\ todo' = todo \ {<<source[1], kind>>}
           /\ objects' = objects \cup {[target |-> target, source |-> source[1], GCH |-> gch]}
           /\ depends' = IF sourceDependsOnPrecompiledHeader(includes, source, gch)
                         THEN depends \cup {<<target, gch>>}
                         ELSE depends
           /\ UNCHANGED <<includes, gch>>

staticObjectPCHEmitter ==
    ObjectPCHEmitter("static", ".o") /\ UNCHANGED <<cfgVars, hdrVars, depVars, useVars>>

sharedObjectPCHEmitter ==
    ObjectPCHEmitter("shared", ".os") /\ UNCHANGED <<cfgVars, hdrVars, depVars, useVars>>

\* Compilers/GCC.sconscript.py lines 46-50, called once on the environment of a program
BuildPrecompiledHeader ==
    /\ gch = Unbound
    /\ \E header \in Headers, dir \in Dirs, isSharedLibrary \in BOOLEAN :
           gch' = GchNode(Node(dir, header), isSharedLibrary)
    /\ UNCHANGED <<includes, todo, depends, objects, cfgVars, hdrVars, depVars, useVars>>

\* the include relations the scanner can report: each file includes some of the
\* other headers
IncludeGraphs ==
    {inc \in [TranslationUnits \cup Headers -> SUBSET Headers] :
        \A h \in Headers : h \notin inc[h]}

\* the sources of a program are built in place or all in the variant directory
InitPCH ==
    /\ CfgIdle
    /\ HdrIdle
    /\ DepIdle
    /\ UseIdle
    /\ includes \in IncludeGraphs
    /\ gch = Unbound
    /\ \E dir \in Dirs :
           todo = {Node(dir, tu) : tu \in TranslationUnits} \X {"static", "shared"}
    /\ depends = {}
    /\ objects = {}

NextPCH ==
    \/ BuildPrecompiledHeader
    \/ staticObjectPCHEmitter
    \/ sharedObjectPCHEmitter

SpecPCH == InitPCH /\ [][NextPCH]_vars

---------------------------------------------------------------------------
(* Shared.sconscript.py, GetDependentHeaders: one step per loop iteration or  *)
(* return; stack holds, per active call, the headers its loop has yet to take *)

HeaderNames == {"A.h", "B.h", "C.h"}

\* the ways a project description can spell a header it passes in
Spellings == HeaderNames \cup {"./A.h"}

\* the longest explicitIncludes list a call is made with
MaxExplicit == 2

\* the depth of calls at which Python raises RecursionError, scaled to the model:
\* a traversal of HeaderNames needs Cardinality(HeaderNames) + 1 active calls at most
RecursionLimit == 6

ExplicitIncludes == UNION {[1..n -> Spellings] : n \in 0..MaxExplicit}

\* File(header): the one node of the file the string names; a node stays itself
File(header) == IF StartsWith(header, "./") THEN SubSeq(header, 3, Len(header)) ELSE header

\* SCons.Tool.CScanner(header, self, searchPaths): the headers the file itself includes
Dependents(g, header) == SelectSeq(<<"A.h", "B.h", "C.h">>, LAMBDA h : h \in g[header])

\* every header is scanned, visited before or not
NotVisited_Always(header, visited) == TRUE

\* line 236: if header not in result
NotVisited(header, visited) == header \notin visited

Frame == stack[Len(stack)]
SetFrame(frame) == [stack EXCEPT ![Len(stack)] = frame]

\* a default set made once, when the function is defined, and used by every call
NewResult_Shared(previous) == previous

\* lines 231-232: result is None in a caller's call, which gets a set of its own
NewResult(previous) == {}

\* lines 230-232: a caller passes explicitIncludes and no result, the first time or
\* after an earlier call returned
GetDependentHeadersCall ==
    /\ hpc \in {"idle", "returned"}
    /\ \E explicitIncludes \in ExplicitIncludes :
           /\ explicit' = explicitIncludes
           /\ stack' = <<explicitIncludes>>
    /\ result' = NewResult(result)
    /\ scans' = [h \in HeaderNames |-> 0]
    /\ hpc' = "running"
    /\ UNCHANGED <<graph, cfgVars, pchVars, depVars, useVars>>

\* lines 234-239: the loop takes a header not yet in result, scans it and calls itself
\* with the headers found
GetDependentHeadersVisit ==
    /\ hpc = "running"
    /\ Frame # <<>>
    /\ LET header == File(Head(Frame)) IN
        /\ NotVisited(header, result)
        /\ result' = result \cup {header}
        /\ scans' = [scans EXCEPT ![header] = @ + 1]
        /\ IF Len(stack) >= RecursionLimit
           THEN hpc' = "RecursionError" /\ UNCHANGED stack
           ELSE /\ stack' = Append(SetFrame(Tail(Frame)), Dependents(graph, header))
                /\ UNCHANGED hpc
    /\ UNCHANGED <<graph, explicit, cfgVars, pchVars, depVars, useVars>>

\* lines 234-236: the loop passes over a header already in result
GetDependentHeadersSkip ==
    /\ hpc = "running"
    /\ Frame # <<>>
    /\ ~NotVisited(File(Head(Frame)), result)
    /\ stack' = SetFrame(Tail(Frame))
    /\ UNCHANGED <<graph, explicit, result, scans, hpc, cfgVars, pchVars, depVars, useVars>>

\* line 241: the loop is over, the call returns result to its caller
GetDependentHeadersReturn ==
    /\ hpc = "running"
    /\ Frame = <<>>
    /\ stack' = SubSeq(stack, 1, Len(stack) - 1)
    /\ hpc' = IF Len(stack) = 1 THEN "returned" ELSE "running"
    /\ UNCHANGED <<graph, explicit, result, scans, cfgVars, pchVars, depVars, useVars>>

\* the include relations over the headers, cyclic ones too; the header that includes
\* itself is A.h
IncludeRelations ==
    {g \in [HeaderNames -> SUBSET HeaderNames] : \A h \in {"B.h", "C.h"} : h \notin g[h]}

InitHdr ==
    /\ CfgIdle
    /\ PCHIdle
    /\ DepIdle
    /\ UseIdle
    /\ graph \in IncludeRelations
    /\ explicit = <<>>
    /\ stack = <<>>
    /\ result = {}
    /\ scans = [h \in HeaderNames |-> 0]
    /\ hpc = "idle"

NextHdr ==
    \/ GetDependentHeadersCall
    \/ GetDependentHeadersVisit
    \/ GetDependentHeadersSkip
    \/ GetDependentHeadersReturn

SpecHdr == InitHdr /\ [][NextHdr]_vars

\* the interpreter always takes the next step of a running call
FairSpecHdr == SpecHdr /\ WF_vars(NextHdr)

---------------------------------------------------------------------------
(* Shared.sconscript.py: calls of GetDependencyPath from a project description *)

MaxDepCalls == 2

\* the arguments the calls are made with: names in the table and one that is not,
\* no version keyword (None), an empty one, one dependency's default and another's
DependencyNames == {"Bullet", "Ogg", "Max", "Lua"}
Versions == {None, "", "2.83", "1.3.2"}
Subpaths == {<<>>, <<"Library", "Linux">>}
CarbonRoots == {Absent, "/carbon", "/sdk"}

\* lines 58-69: how a call ends. The version is settled (lines 65-67) before
\* GetDependenciesPath() is called (line 69)
GetDependencyPathCall(c, dependency, paths, version) ==
    IF (version = None \/ version = "") /\ dependency \notin DOMAIN defaultVersions
    THEN Raised(<<>>, "KeyError")
    ELSE IF GetDependenciesPath(c) = None
    THEN Exit1(<<>>, "Error: unable to locate the Dependencies directory")
    ELSE Returned(<<>>, GetDependencyPath(c.osName, GetDependenciesPath(c), dependency,
                                           paths, version))

\* a project description calls GetDependencyPath(dependency, *paths, version=version)
GetDependencyPathCalled ==
    /\ status = "running"
    /\ Len(depCalls) < MaxDepCalls
    /\ \E dependency \in DependencyNames, paths \in Subpaths, version \in Versions :
           LET r == GetDependencyPathCall(Ctx, dependency, paths, version)
           IN /\ depCalls' = Append(depCalls, [dependency |-> dependency, paths |-> paths,
                                               version |-> version, status |-> r.status,
                                               path |-> r.value])
              /\ status' = IF r.status = "returned" THEN status ELSE r.status
              /\ stdout' = stdout \o r.out
    \* lines 59-63: the table is a literal of the call and no statement writes to it
    /\ depTable' = defaultVersions
    /\ UNCHANGED <<ARGUMENTS, COMMAND_LINE_TARGETS, osName, sysPlatform, environ, fs, pc,
                   invoked, exports, buildType, platformScriptFile, platformScript,
                   imported, baseEnv, installDir, e, calls, returned, pchVars, hdrVars,
                   useVars>>

InitDep ==
    /\ \E carbonroot \in CarbonRoots : ARGUMENTS = [NoArguments EXCEPT !.carbonroot = carbonroot]
    /\ osName \in {"posix", "nt"}
    /\ fs \in {DependenciesDirs(osName), {}}
    /\ COMMAND_LINE_TARGETS = {}
    /\ sysPlatform = "linux2"
    /\ environ = {}
    /\ pc = "idle"
    /\ status = "running"
    /\ stdout = <<>>
    /\ invoked = <<>>
    /\ exports = {}
    /\ buildType = None
    /\ platformScriptFile = None
    /\ platformScript = Unbound
    /\ imported = {}
    /\ baseEnv = Unbound
    /\ installDir = None
    /\ e = Unbound
    /\ calls = 0
    /\ returned = <<>>
    /\ PCHIdle
    /\ HdrIdle
    /\ DepIdle
    /\ UseIdle

NextDep == GetDependencyPathCalled

SpecDep == InitDep /\ [][NextDep]_vars

---------------------------------------------------------------------------
(* Compilers/GCC.sconscript.py and Compilers/Clang.sconscript.py:          *)
(* UsePrecompiledHeader, called on an environment by a project description *)

MaxUses == 2
MaxCompiles == 2

\* keywords.get('pathToHeaderRoot', '.')
HeaderRoots == {".", "Source"}

\* the environments a compiler script returns, CPPPATH as the shared layer or a project
\* description left it
UseEnvironments ==
    {EnvAppend([env EXCEPT !.METHODS = {}], "CPPPATH", cpppath) :
        env \in {script.value :
                    script \in UNION {{GCCScript(c), ClangScript(c)} :
                        c \in {Context([NoArguments EXCEPT !.strict = strict], "posix",
                                       "linux2", {}, {}, type) :
                                  strict \in {Absent, "true"},
                                  type \in {"Debug", "Release"}}}},
        cpppath \in {<<>>, <<"Source">>}}

\* the lines after self.BuildPrecompiledHeader(): Compilers/Clang.sconscript.py line 45
\* where Clang's method is bound, Compilers/GCC.sconscript.py line 58 otherwise
Augmented(self, call) ==
    IF self.USEPCH = "Clang"
    THEN [self EXCEPT !.CCFLAGS = @ \o <<"-Xclang", "-include-pch", "-Xclang", str(self.GCH)>>]
    ELSE [self EXCEPT !.CPPPATH = <<call.pathToHeaderRoot>> \o @]

\* the clone taken once the flags and paths of the call are in place
BuildEnvironment_Augmented(self, call) ==
    Clone(Augmented([self EXCEPT !.GCH = GchNode(Node("src", call.header),
                                                 call.isSharedLibrary)], call)).env

\* Compilers/GCC.sconscript.py lines 48 and 50: the self.Clone() whose Gch or GchSh builds
\* the artifact
BuildEnvironment(self, call) == Clone(self).env

\* line 57 (GCC), line 44 (Clang): self.BuildPrecompiledHeader(header, **keywords). SCons
\* refuses a target that another environment already builds with another command
\* (UserError), which is the case of a header precompiled before
UsePrecompiledHeaderBuild ==
    /\ upc = "idle"
    /\ Len(artifacts) < MaxUses
    /\ \E header \in Headers, isSharedLibrary \in BOOLEAN, root \in HeaderRoots :
           LET call == [header |-> header, isSharedLibrary |-> isSharedLibrary,
                        pathToHeaderRoot |-> root]
               node == GchNode(Node("src", header), isSharedLibrary)
               clone == BuildEnvironment(useEnv, call)
           IN IF \E k \in DOMAIN artifacts : artifacts[k].node.name = node.name
              THEN /\ upc' = "UserError"
                   /\ UNCHANGED <<useEnv, artifacts, ucall>>
              ELSE /\ artifacts' = Append(artifacts,
                                          [node |-> node, call |-> call,
                                           CCFLAGS |-> clone.CCFLAGS,
                                           CPPPATH |-> clone.CPPPATH])
                   /\ useEnv' = (IF "GCH" \in DOMAIN useEnv
                                 THEN [useEnv EXCEPT !.GCH = node]
                                 ELSE ("GCH" :> node) @@ useEnv)
                   /\ ucall' = call
                   /\ upc' = "built"
    /\ UNCHANGED <<commands, cfgVars, pchVars, hdrVars, depVars>>

\* line 58 (GCC), line 45 (Clang)
UsePrecompiledHeaderAugment ==
    /\ upc = "built"
    /\ useEnv' = Augmented(useEnv, ucall)
    /\ upc' = "idle"
    /\ UNCHANGED <<artifacts, commands, ucall, cfgVars, pchVars, hdrVars, depVars>>

\* env.Object(source), between calls of UsePrecompiledHeader: the flags, the include
\* paths and env['GCH'] the compilation is issued with
Compile ==
    /\ upc = "idle"
    /\ Len(commands) < MaxCompiles
    /\ \E source \in TranslationUnits :
           commands' = Append(commands,
                              [source |-> source, CCFLAGS |-> useEnv.CCFLAGS,
                               CPPPATH |-> useEnv.CPPPATH,
                               GCH |-> IF "GCH" \in DOMAIN useEnv THEN useEnv.GCH
                                       ELSE Unbound,
                               uses |-> Len(artifacts)])
    /\ UNCHANGED <<useEnv, artifacts, upc, ucall, cfgVars, pchVars, hdrVars, depVars>>

InitUse ==
    /\ CfgIdle
    /\ PCHIdle
    /\ HdrIdle
    /\ DepIdle
    /\ useEnv \in UseEnvironments
    /\ artifacts = <<>>
    /\ commands = <<>>
    /\ upc = "idle"
    /\ ucall = Unbound

NextUse ==
    \/ UsePrecompiledHeaderBuild
    \/ UsePrecompiledHeaderAugment
    \/ Compile

SpecUse == InitUse /\ [][NextUse]_vars

---------------------------------------------------------------------------
(* Properties of the configuration pass *)

\* the pass got past the parsing of the build type
PastParsing == pc \in {"select", "invoke", "finish", "ready"}
                  \/ (pc = "done" /\ buildType \in {"Debug", "Release"})

\* the platform script has been run to its end
PlatformScriptRan == pc \in {"finish", "ready"}
                        \/ (pc = "done" /\ platformScriptFile \in ScriptFiles \cap fs)

ScriptOf(platform) == platform \o ".sconscript.py"

\* the architecture names each platform script that reads architecture= allows
AllowedArchitectures ==
    [Android |-> {"ARMv7", "ARM64", "x86", "x64"}, iOS |-> {"ARMv7", "ARM64", "x86", "x64"},
     iOSSimulator |-> {"ARM64", "x64"}, Windows |-> {"x86", "x64"}]

\* the architecture= argument is one the selected script allows (or is left out)
ArchitectureAllowed ==
    \A p \in DOMAIN AllowedArchitectures :
        platformScriptFile = ScriptOf(p) =>
            ARGUMENTS["architecture"] \in AllowedArchitectures[p] \cup {Absent}

\* a path the selected platform script requires is missing
RequiredPathMissing ==
    CASE platformScriptFile = "Android.sconscript.py" ->
             /\ sysPlatform \in DOMAIN HOST_PLATFORMS
             /\ \E kind \in {"sysroot", "clang_toolchain", "gcc_toolchain"} :
                    NDKOf(osName, NDK_PATH(Ctx),
                          ARCH_CONFIGS[ArgGet(ARGUMENTS, "architecture", "ARMv7")],
                          HOST_PLATFORMS[sysPlatform])[kind] \notin fs
      [] platformScriptFile = "iOS.sconscript.py" ->
             (IF StartsWith(ArgGet(ARGUMENTS, "architecture", "ARMv7"), "ARM")
              THEN iPhoneOSSDK ELSE iPhoneSimulatorSDK) \notin fs
      [] platformScriptFile = "iOSSimulator.sconscript.py" -> iPhoneSimulatorSDK \notin fs
      [] platformScriptFile = "MacOSX.sconscript.py" ->
             ~\E path \in fs : StartsWith(path, sdkPrefix)
      [] platformScriptFile = "macOS.sconscript.py" ->
             /\ (MacOSXSDKs \o "MacOSX.sdk") \notin fs
             /\ ~\E path \in fs : StartsWith(path, sdkPrefix)
      [] OTHER -> FALSE

\* C1: the shared layer runs exactly one platform script, the one named by
\* platformscript=, else by platform=, else by the host table (nt -> Windows, darwin ->
\* MacOSX, linux2 -> Linux); when no name resolves or the file does not exist the pass
\* ends with Exit(1) and no platform script is run.
C1_OneScriptByPriority ==
    LET name ==
            IF ARGUMENTS["platformscript"] # Absent THEN ARGUMENTS["platformscript"]
            ELSE IF ARGUMENTS["platform"] # Absent
            THEN ARGUMENTS["platform"] \o ".sconscript.py"
            ELSE IF osName = "nt" THEN "Windows.sconscript.py"
            ELSE IF sysPlatform = "darwin" THEN "MacOSX.sconscript.py"
            ELSE IF sysPlatform = "linux2" THEN "Linux.sconscript.py"
            ELSE None
        platformScriptsRun == {i \in DOMAIN invoked : invoked[i] \in ScriptFiles}
    IN (PastParsing /\ pc # "select") =>
          IF name \in {None, ""} \/ name \notin fs
          THEN status = "Exit(1)" /\ pc = "done" /\ stdout # <<>> /\ invoked = <<>>
          ELSE IF pc = "invoke" THEN invoked = <<>>
          ELSE platformScriptsRun = {1} /\ invoked[1] = name

\* C1 witness: platformscript= wins over platform= and the script it names has run
C1_Witness ==
    /\ ARGUMENTS["platformscript"] = "macOS.sconscript.py"
    /\ ARGUMENTS["platform"] = "Linux"
    /\ pc = "ready"
    /\ invoked[1] = "macOS.sconscript.py"
    /\ platformScript.platform = "macOS"

\* C2: for every supported platform/architecture pair whose SDK/toolchain paths exist
\* the platform script returns a Platform Descriptor whose environment names a C and a
\* C++ compiler.
C2_SupportedPairYieldsCompiler ==
    (/\ PlatformScriptRan
     /\ ArchitectureAllowed
     /\ platformScriptFile = "Android.sconscript.py" => sysPlatform \in DOMAIN HOST_PLATFORMS
     /\ ~RequiredPathMissing)
    => /\ platformScript # Unbound
       /\ platformScript.env.CC # ""
       /\ platformScript.env.CXX # ""

\* C3: an architecture= value outside the platform's allowed set ends the pass with a
\* diagnostic and Exit(1) before any compiler script runs, and no Platform Descriptor
\* is returned.
C3_BadArchitectureExits ==
    (/\ PlatformScriptRan
     /\ platformScriptFile = "Android.sconscript.py" => sysPlatform \in DOMAIN HOST_PLATFORMS
     /\ ~ArchitectureAllowed)
    => /\ status = "Exit(1)"
       /\ stdout # <<>>
       /\ invoked = <<platformScriptFile>>
       /\ platformScript = Unbound

\* C4: when a path the platform script requires is missing (one of the three NDK
\* directories for Android; the SDK for iOS, iOSSimulator, MacOSX and macOS), the script
\* prints a diagnostic and calls Exit(1), and no Platform Descriptor is returned.
C4_MissingPathIsFatal ==
    (PlatformScriptRan /\ ArchitectureAllowed /\ RequiredPathMissing)
    => /\ status = "Exit(1)"
       /\ pc = "done"
       /\ stdout # <<>>
       /\ platformScript = Unbound
       /\ baseEnv = Unbound

\* C4 witness: the Android script has exited over a missing gcc toolchain alone
C4_Witness ==
    /\ platformScriptFile = "Android.sconscript.py"
    /\ pc = "done"
    /\ status = "Exit(1)"
    /\ invoked = <<"Android.sconscript.py">>
    /\ LET ndk == NDKOf(osName, NDK_PATH(Ctx), ARCH_CONFIGS["ARM64"],
                        HOST_PLATFORMS[sysPlatform])
       IN /\ ARGUMENTS["architecture"] = "ARM64"
          /\ ndk.sysroot \in fs
          /\ ndk.clang_toolchain \in fs
          /\ ndk.gcc_toolchain \notin fs

\* C5: on Windows with static=true and no carbonroot the pass ends by Carbonize's
\* Exit(1), and the environment Carbonize was called on is left as it was.
C5_WindowsStaticNeedsCarbonroot ==
    (/\ platformScriptFile = "Windows.sconscript.py"
     /\ ArchitectureAllowed
     /\ ARGUMENTS["static"] = "true"
     /\ ARGUMENTS["carbonroot"] = Absent
     /\ pc = "done")
    => /\ status = "Exit(1)"
       /\ e \in {Unbound, baseEnv}

\* C6: with the install target and static=true, IsCarbonEngineStatic() never returns a
\* value on Linux, MacOSX and macOS: the call ends the pass with Exit(1).
C6_InstallWithStaticExits ==
    (/\ platformScriptFile \in {ScriptOf("Linux"), ScriptOf("MacOSX"), ScriptOf("macOS")}
     /\ "install" \in COMMAND_LINE_TARGETS
     /\ ARGUMENTS["static"] = "true")
    => returned = <<>>

\* C7: a Carbonize call never ends in an exception: it returns, or it prints a
\* diagnostic and calls Exit.
C7_CarbonizeNeverRaises ==
    calls > 0 /\ e # Unbound =>
        /\ status \in {"running", "Exit(1)"}
        /\ status = "Exit(1)" => stdout # <<>>

---------------------------------------------------------------------------
(* Properties of the object emitters *)

RECURSIVE Reach(_, _, _)
\* the headers reached from the files of frontier along the include relation
Reach(inc, seen, frontier) ==
    IF frontier = {} THEN seen
    ELSE LET next == UNION {inc[f] : f \in frontier} \ seen
         IN Reach(inc, seen \cup next, next)

\* the headers a file includes, directly or through other headers
IncludeClosure(inc, file) == Reach(inc, {}, {file})

\* the object's translation unit includes the source of the precompiled header that was
\* enabled when the object was asked for
IncludesPrecompiledHeader(o) ==
    /\ o.GCH # Unbound
    /\ o.GCH.sources[1].name \in IncludeClosure(includes, o.source.name)

\* C8: an object whose translation unit does not include the precompiled header's source
\* file, directly or transitively, gets no dependency on a precompiled artifact from the
\* emitters; with GCH not set on the environment no object gets one.
C8_NoDependencyWithoutInclude ==
    \A o \in objects :
        ~IncludesPrecompiledHeader(o) => ~\E d \in depends : d[1] = o.target

\* C8 witness: with GCH set, one object was given the dependency and another, whose
\* translation unit does not include the header, was not
C8_Witness ==
    \E o, other \in objects :
        /\ o.GCH # Unbound
        /\ ~IncludesPrecompiledHeader(o)
        /\ ~\E d \in depends : d[1] = o.target
        /\ <<other.target, other.GCH>> \in depends

\* C9: with GCH set, every object whose translation unit includes the precompiled
\* header's source file, directly or only through other headers, gets a dependency on the
\* precompiled artifact, static and shared objects alike.
C9_DependencyForEveryIncluder ==
    \A o \in objects :
        IncludesPrecompiledHeader(o) => <<o.target, o.GCH>> \in depends

---------------------------------------------------------------------------
(* Properties of GetDependentHeaders *)

\* C10: GetDependentHeaders hands no header to the scanner more than once, on cyclic
\* include relations too, and every call returns.
C10_TerminatesScanningOnce ==
    /\ [](\A h \in HeaderNames : scans[h] <= 1)
    /\ (hpc = "running") ~> (hpc = "returned")

\* C10 witness: a call on headers that include each other has returned both, each
\* scanned once
C10_Witness ==
    /\ hpc = "returned"
    /\ "B.h" \in graph["A.h"]
    /\ "A.h" \in graph["B.h"]
    /\ {"A.h", "B.h"} \subseteq result
    /\ scans["A.h"] = 1
    /\ scans["B.h"] = 1

\* C11: a call of GetDependentHeaders returns the headers of explicitIncludes and every
\* header they include, directly or through other headers, and no other header, an
\* earlier call's headers neither.
C11_ReturnsTheClosure ==
    hpc = "returned" =>
        result = {File(explicit[i]) : i \in DOMAIN explicit}
                     \cup UNION {IncludeClosure(graph, File(explicit[i])) : i \in DOMAIN explicit}

\* C11 witness: a call on A.h alone, which includes B.h and not C.h, has returned A.h
\* and B.h
C11_Witness ==
    /\ hpc = "returned"
    /\ explicit = <<"./A.h">>
    /\ graph["A.h"] = {"B.h"}
    /\ graph["B.h"] = {"A.h"}
    /\ result = {"A.h", "B.h"}

---------------------------------------------------------------------------
(* Properties of GetDependencyPath *)

\* the separator os.path.join inserts
Sep == IF osName = "nt" THEN "\\" ELSE "/"

RECURSIVE Under(_, _)
\* base followed by each of parts, a separator before each
Under(base, parts) ==
    IF parts = <<>> THEN base ELSE Under(base \o Sep \o Head(parts), Tail(parts))

\* C12: a call of GetDependencyPath without a version, for a name of the table and with
\* the Dependencies directory found, returns <DependenciesPath>/<name>-<default version>
\* followed by the subpaths, in the first call and in every later one, and the table
\* of default versions is the same after every call.
C12_DefaultVersionPath ==
    /\ depTable = defaultVersions
    /\ \A i \in DOMAIN depCalls :
           LET call == depCalls[i]
           IN (/\ call.version = None
               /\ call.dependency \in DOMAIN defaultVersions
               /\ GetDependenciesPath(Ctx) # None)
              => /\ call.status = "returned"
                 /\ call.path = Under(GetDependenciesPath(Ctx) \o Sep \o call.dependency
                                          \o "-" \o defaultVersions[call.dependency],
                                      call.paths)

C12_Witness ==
    /\ Len(depCalls) = 2
    /\ depCalls[1].dependency = "Ogg" /\ depCalls[1].version = "2.83"
    /\ depCalls[2].dependency = "Bullet" /\ depCalls[2].version = None
    /\ depCalls[2].path = "#/Dependencies/Bullet-2.83/Library/Linux"

\* C13: with the same subpaths, two calls of GetDependencyPath whose (dependency name,
\* explicit version) pairs differ never return the same path, an empty version and a
\* version that is another dependency's default included.
C13_DistinctPairsDistinctPaths ==
    \A i, j \in DOMAIN depCalls :
        LET a == depCalls[i]
            b == depCalls[j]
        IN (/\ a.status = "returned" /\ b.status = "returned"
            /\ a.version # None /\ b.version # None
            /\ a.paths = b.paths
            /\ <<a.dependency, a.version>> # <<b.dependency, b.version>>)
           => a.path # b.path

---------------------------------------------------------------------------
(* Properties of the flag lists *)

\* the context of the running pass with strict= given as "true" or as "false"
WithStrict(strict) ==
    Context([ARGUMENTS EXCEPT !.strict = strict], osName, sysPlatform, environ, fs, buildType)

\* every entry of CCFLAGS and of LINKFLAGS of base is an entry of the same list of env
FlagsContained(base, env) ==
    \A key \in {"CCFLAGS", "LINKFLAGS"} : ToSet(base[key]) \subseteq ToSet(env[key])

\* C14: with the other inputs of the pass unchanged, CCFLAGS and LINKFLAGS of the
\* environment a platform script returns with strict=true contain every entry of the
\* lists it returns with strict=false, and so do those of each compiler script (GCC,
\* Clang, Visual Studio for the compilers and architectures it knows).
C14_StrictFlagsAreAdded ==
    /\ platformScript # Unbound
       => LET other == RunPlatformScript(platformScriptFile,
                           WithStrict(IF Ctx.isStrictBuild THEN "false" ELSE "true"))
          IN other.status = "returned"
             => IF Ctx.isStrictBuild
                THEN FlagsContained(other.value.env, platformScript.env)
                ELSE FlagsContained(platformScript.env, other.value.env)
    /\ pc # "parse"
       => /\ FlagsContained(GCCScript(WithStrict("false")).value,
                            GCCScript(WithStrict("true")).value)
          /\ FlagsContained(ClangScript(WithStrict("false")).value,
                            ClangScript(WithStrict("true")).value)
          /\ \A architecture \in DOMAIN MSVCTargetArch, compiler \in DOMAIN MSVCVersions :
                 FlagsContained(
                     VisualStudioScript(WithStrict("false"), architecture, compiler).value,
                     VisualStudioScript(WithStrict("true"), architecture, compiler).value)

C14_Witness ==
    /\ platformScript # Unbound
    /\ platformScript.platform = "Android"
    /\ Ctx.isStrictBuild
    /\ Ctx.isDebugBuild
    /\ Contains(platformScript.env.CCFLAGS, "-Wno-pedantic")
    /\ ~Contains(platformScript.env.CCFLAGS, "-Wno-nullable-to-nonnull-conversion")
    /\ RunPlatformScript(platformScriptFile, WithStrict("false")).status = "returned"

---------------------------------------------------------------------------
(* Properties of the Android environment *)

\* the platform script returned, for Android and architecture=ARM64
AndroidARM64 ==
    /\ platformScript # Unbound
    /\ platformScript.platform = "Android"
    /\ platformScript.architecture = "ARM64"

\* <ndk>/toolchains/llvm-3.6/prebuilt/<host>/bin/clang++, spelled with the host's separator
NDKClangXX ==
    NDK_PATH(Ctx) \o Sep \o "toolchains/llvm-3.6/prebuilt" \o Sep
        \o HOST_PLATFORMS[sysPlatform] \o Sep \o "bin" \o Sep \o "clang++"

NDKLibraries == {"android", "c", "c++_shared", "dl", "m"}
EngineSystemLibraries == {"GLESv2", "log", "OpenSLES"}

\* C15 as stated: with platform Android, architecture=ARM64 and a valid NDK path, the
\* environment the platform script yields has its C++ compiler at
\* <ndk>/toolchains/llvm-3.6/prebuilt/<host>/bin/clang++ and a LIBS that includes
\* android, c, c++_shared, dl, m, GLESv2, log and OpenSLES.
C15_ScriptEnvHasAllLibraries ==
    AndroidARM64
    => /\ platformScript.env.CXX = NDKClangXX
       /\ NDKLibraries \cup EngineSystemLibraries \subseteq ToSet(platformScript.env.LIBS)

\* C15, amended: with platform Android, architecture=ARM64 and a valid NDK path, the
\* environment the platform script yields has its C++ compiler at
\* <ndk>/toolchains/llvm-3.6/prebuilt/<host>/bin/clang++ and a LIBS that includes
\* android, c, c++_shared, dl and m; GLESv2, log and OpenSLES are in the LIBS of the
\* environment Carbonize returns for a program, not in that of the platform script's.
C15_ScriptEnvAndCarbonizedLibraries ==
    AndroidARM64
    => /\ platformScript.env.CXX = NDKClangXX
       /\ NDKLibraries \subseteq ToSet(platformScript.env.LIBS)
       /\ EngineSystemLibraries \cap ToSet(platformScript.env.LIBS) = {}
       /\ (calls > 0 /\ e # Unbound /\ status = "running")
          => /\ e.CXX = NDKClangXX
             /\ NDKLibraries \cup EngineSystemLibraries \subseteq ToSet(e.LIBS)

C15_Witness ==
    /\ AndroidARM64
    /\ calls > 0 /\ e # Unbound /\ status = "running"
    /\ e.CXX = "/opt/android-ndk/toolchains/llvm-3.6/prebuilt/linux-x86_64/bin/clang++"
    /\ Contains(e.LIBS, "OpenSLES")
    /\ ~Contains(baseEnv.LIBS, "OpenSLES")

---------------------------------------------------------------------------
(* Properties of Carbonize *)

\* a CarbonProgram call was made, e is the environment its Carbonize worked on
Carbonized == calls > 0 /\ e # Unbound

\* the last call of the pass returned
NothingFailed == status = "running"

\* IsCarbonEngineStatic() is true for the build of the pass
LinkedStatically ==
    LET static == IsCarbonEngineStatic(Ctx, COMMAND_LINE_TARGETS, platformScript)
    IN static.status = "returned" /\ static.value

\* the third-party dependencies of the engine on each platform
DependencyList ==
    [Android |-> {"AngelScript", "Bullet", "FreeImage", "OpenALSoft", "OpenAssetImport",
                  "Vorbis", "ZLib"},
     iOS |-> {"AngelScript", "Bullet", "FreeImage", "OpenAssetImport", "Vorbis", "ZLib"},
     iOSSimulator |-> {"AngelScript", "Bullet", "FreeImage", "OpenAssetImport", "Vorbis",
                       "ZLib"},
     Linux |-> {"AngelScript", "Bullet", "FreeImage", "FreeType", "OpenAssetImport",
                "Vorbis", "ZLib"},
     MacOSX |-> {"AngelScript", "Bullet", "FreeImage", "FreeType", "OpenAssetImport",
                 "PhysX", "Vorbis", "ZLib"},
     macOS |-> {"AngelScript", "Bullet", "FreeImage", "FreeType", "OpenAssetImport",
                "PhysX", "Vorbis", "ZLib"},
     Windows |-> {"AngelScript", "Bullet", "FreeImage", "FreeType", "OpenALSoft",
                  "OpenAssetImport", "OculusRift", "Vorbis", "ZLib"}]

\* the system libraries and frameworks the engine needs on each platform
SystemLibraries ==
    [Android |-> {"GLESv2", "log", "OpenSLES"}, iOS |-> {}, iOSSimulator |-> {},
     Linux |-> {"dl", "GL", "openal", "pthread", "SDL2", "udev", "X11", "Xinerama"},
     MacOSX |-> {"iconv"}, macOS |-> {"iconv"}, Windows |-> {}]
SystemFrameworks ==
    [Android |-> {},
     iOS |-> {"CoreGraphics", "Foundation", "GameKit", "OpenAL", "OpenGLES", "QuartzCore",
              "StoreKit", "UIKit"},
     iOSSimulator |-> {"CoreGraphics", "Foundation", "GameKit", "OpenAL", "OpenGLES",
                       "QuartzCore", "StoreKit", "UIKit"},
     Linux |-> {},
     MacOSX |-> {"Cocoa", "GameKit", "IOKit", "OpenAL", "OpenGL", "StoreKit"},
     macOS |-> {"Cocoa", "GameKit", "IOKit", "OpenAL", "OpenGL", "StoreKit"},
     Windows |-> {}]

\* <DependenciesPath>/<name>-<default version>/Library/<platform>[/<architecture>]
DependencyLibraryPath(dependency) ==
    Under(GetDependenciesPath(Ctx) \o Sep \o dependency \o "-" \o defaultVersions[dependency],
          IF platformScript.platform = "iOS" THEN <<"Library", "iOS">>
          ELSE <<"Library", platformScript.platform, platformScript.architecture>>)

\* env has the library search path of every dependency of the platform
HasDependencyPaths(env) ==
    /\ GetDependenciesPath(Ctx) # None
    /\ "LIBPATH" \in DOMAIN env
    /\ \A dependency \in DependencyList[platformScript.platform] :
           Contains(env.LIBPATH, DependencyLibraryPath(dependency))

\* env has the system libraries and frameworks of the platform
HasSystemLibraries(env) ==
    /\ "LIBS" \in DOMAIN env
    /\ SystemLibraries[platformScript.platform] \subseteq ToSet(env.LIBS)
    /\ SystemFrameworks[platformScript.platform] # {}
       => /\ "FRAMEWORKS" \in DOMAIN env
          /\ SystemFrameworks[platformScript.platform] \subseteq ToSet(env.FRAMEWORKS)

LinkedDynamically ==
    LET static == IsCarbonEngineStatic(Ctx, COMMAND_LINE_TARGETS, platformScript)
    IN static.status = "returned" /\ ~static.value

\* what SetupForLinkingCarbon leaves in env: the platform's system libraries and
\* frameworks, on Windows (which has none) the dependencies' library paths
SetupForLinkingCarbonApplied(env) ==
    IF platformScript.platform = "Windows" THEN HasDependencyPaths(env)
    ELSE HasSystemLibraries(env)

\* env has nothing of the static linking setup
NothingOfStaticLinking(env) ==
    /\ "LIBPATH" \in DOMAIN env
       => \A dependency \in DependencyList[platformScript.platform] :
              ~Contains(env.LIBPATH, DependencyLibraryPath(dependency))
    /\ "LIBS" \in DOMAIN env
       => ToSet(env.LIBS) \cap (DependencyList[platformScript.platform]
                                \cup SystemLibraries[platformScript.platform]) = {}
    /\ "FRAMEWORKS" \in DOMAIN env
       => ToSet(env.FRAMEWORKS) \cap SystemFrameworks[platformScript.platform] = {}
    /\ "CPPDEFINES" \in DOMAIN env => ~Contains(env.CPPDEFINES, "CARBON_STATIC_LIBRARY")

\* C17: on every platform Carbonize calls SetupForLinkingCarbon (which completes when
\* the Dependencies directory is found) if and only if IsCarbonEngineStatic() is true
\* for the build; in dynamic mode it adds no dependency
\* library path, no third-party library, no system library or framework and does not
\* define CARBON_STATIC_LIBRARY.
C17_SetupIffStatic ==
    Carbonized
    => /\ (LinkedStatically /\ GetDependenciesPath(Ctx) # None)
          => SetupForLinkingCarbonApplied(e)
       /\ LinkedDynamically => ~SetupForLinkingCarbonApplied(e) /\ NothingOfStaticLinking(e)

\* C18: CarbonProgram leaves the base environment unchanged: after any sequence of
\* CarbonProgram calls CPPDEFINES, CPPPATH, LIBPATH, LIBS, FRAMEWORKS, CCFLAGS and
\* LINKFLAGS of baseEnv are what they were before the calls, and the environment a call
\* carbonized is what Carbonize makes of the base environment as the configuration
\* pass left it, with nothing of an earlier call's additions.
C18_BaseEnvUnchanged ==
    baseEnv # Unbound
    => /\ \A key \in ListKeys \cap DOMAIN BaseEnvOf(platformScript) :
              key \in DOMAIN baseEnv /\ baseEnv[key] = BaseEnvOf(platformScript)[key]
       /\ Carbonized
          => \E keywords \in KeywordChoices :
                 e = Carbonize(BaseEnvOf(platformScript), CallOf(keywords)).env

C18_Witness ==
    /\ calls = 2 /\ returned = <<>>
    /\ Carbonized /\ NothingFailed
    /\ platformScript.platform = "iOS"
    /\ Contains(e.LIBS, "CarbonEngineiOS")
    /\ baseEnv.LIBS = <<>>

RECURSIVE Slashes(_)
\* path with every backslash written as a slash
Slashes(path) ==
    IF path = "" THEN ""
    ELSE (IF SubSeq(path, 1, 1) = "\\" THEN "/" ELSE SubSeq(path, 1, 1))
         \o Slashes(SubSeq(path, 2, Len(path)))

\* <platform>/<architecture>/<compiler>/<buildType> of the Platform Descriptor
DescriptorLayout ==
    platformScript.platform \o "/" \o platformScript.architecture \o "/"
        \o platformScript.compiler \o "/" \o buildType

\* C19: for every platform script, in carbonroot mode Carbonize adds the library search
\* path <carbonroot>/Build/<platform>/<architecture>/<compiler>/<buildType>, with the
\* platform, architecture and compiler of the script's Platform Descriptor, which is
\* the layout of installDir, Build/<platform>/<architecture>/<compiler>/<buildType>.
C19_CarbonrootLibraryPath ==
    (Carbonized /\ ArgGet(ARGUMENTS, "carbonroot", "") # "")
    => /\ "LIBPATH" \in DOMAIN e
       /\ \E i \in DOMAIN e.LIBPATH :
              Slashes(e.LIBPATH[i]) = ARGUMENTS.carbonroot \o "/Build/" \o DescriptorLayout
       /\ Slashes(installDir) = "#/Build/" \o DescriptorLayout

---------------------------------------------------------------------------
(* Properties of the flag removals *)

\* C20: every list.remove of the Android script ('-S' from ARFLAGS, '-stdlib=libc++'
\* and, under strict, '-Wno-nullable-to-nonnull-conversion' from CCFLAGS) and of the
\* Windows script ('/Od' and '/RTC1' under Debug with slim=true) finds its entry in the
\* list the compiler script left, for every build type, strict and slim: no pass ends
\* with the ValueError of a failed removal, and the entry is gone afterwards.
C20_RemovalsArePaired ==
    /\ status # "ValueError"
    /\ pc # "parse"
       => /\ \A i \in DOMAIN AndroidRemovals(Ctx) :
                 Contains(ClangScript(Ctx).value[AndroidRemovals(Ctx)[i][1]],
                          AndroidRemovals(Ctx)[i][2])
          /\ Ctx.isDebugBuild
             => \A architecture \in DOMAIN MSVCTargetArch, compiler \in DOMAIN MSVCVersions :
                    LET vs == VisualStudioScript(Ctx, architecture, compiler).value
                    IN Contains(vs.CCFLAGS, "/Od") /\ Contains(vs.CCFLAGS, "/RTC1")
    /\ (platformScript # Unbound /\ platformScript.platform = "Android")
       => \A i \in DOMAIN AndroidRemovals(Ctx) :
              ~Contains(platformScript.env[AndroidRemovals(Ctx)[i][1]],
                        AndroidRemovals(Ctx)[i][2])

C20_Witness ==
    /\ platformScript # Unbound
    /\ platformScript.platform = "Android"
    /\ Ctx.isStrictBuild
    /\ Len(AndroidRemovals(Ctx)) = 3
    /\ platformScript.env.ARFLAGS = <<"rc">>
    /\ Contains(platformScript.env.CCFLAGS, "-Weverything")
    /\ ~Contains(platformScript.env.CCFLAGS, "-stdlib=libc++")

---------------------------------------------------------------------------
(* Properties of UsePrecompiledHeader *)

\* flags pass -include-pch with the artifact at path to the compiler
IncludesPch(flags, path) ==
    \E i \in 1..(Len(flags) - 3) :
        SubSeq(flags, i, i + 3) = <<"-Xclang", "-include-pch", "-Xclang", path>>

\* the augmentations made since artifact k was built, that of its own call included
AugmentedSince(k) == (Len(artifacts) - k) + (IF upc = "built" THEN 0 ELSE 1)

\* C21: UsePrecompiledHeader builds before it augments: the artifact is built with a
\* clone taken before the call changes flags or include paths, so its compile command
\* has no -include-pch of the artifact itself (Clang) and not the header root the call
\* prepends (GCC: its CPPPATH is the environment's without the roots prepended by its
\* own and by later calls), while every compilation issued after a call has the
\* -include-pch of the last artifact (Clang) or the call's header root first in its
\* CPPPATH (GCC), and env['GCH'] names the artifact of the last call.
C21_BuildsBeforeAugmenting ==
    /\ \A k \in DOMAIN artifacts :
           IF useEnv.USEPCH = "Clang"
           THEN /\ ~IncludesPch(artifacts[k].CCFLAGS, str(artifacts[k].node))
                /\ artifacts[k].CPPPATH = useEnv.CPPPATH
           ELSE /\ artifacts[k].CPPPATH
                       = SubSeq(useEnv.CPPPATH, AugmentedSince(k) + 1, Len(useEnv.CPPPATH))
                /\ artifacts[k].CCFLAGS = useEnv.CCFLAGS
    /\ \A i \in DOMAIN commands :
           commands[i].uses > 0
           => LET last == artifacts[commands[i].uses]
              IN /\ commands[i].GCH = last.node
                 /\ IF useEnv.USEPCH = "Clang"
                    THEN IncludesPch(commands[i].CCFLAGS, str(last.node))
                    ELSE /\ commands[i].CPPPATH # <<>>
                         /\ Head(commands[i].CPPPATH) = last.call.pathToHeaderRoot
    /\ (artifacts # <<>> /\ upc # "UserError")
       => useEnv.GCH = artifacts[Len(artifacts)].node

C21_Witness ==
    /\ Len(artifacts) = 2
    /\ upc = "idle"
    /\ useEnv.USEPCH = "Clang"
    /\ \E i \in DOMAIN commands :
           /\ commands[i].uses = 2
           /\ IncludesPch(commands[i].CCFLAGS, "x.h.gch")
           /\ IncludesPch(artifacts[2].CCFLAGS, "pch.h.gch")
           /\ ~IncludesPch(artifacts[2].CCFLAGS, "x.h.gch")

---------------------------------------------------------------------------
(* Properties of the preprocessor defines *)

\* the environments the compiler scripts return for the pass's arguments
ToolchainEnvironments ==
    {GCCScript(Ctx).value, ClangScript(Ctx).value}
    \cup {VisualStudioScript(Ctx, architecture, compiler).value :
             architecture \in DOMAIN MSVCTargetArch, compiler \in DOMAIN MSVCVersions}

\* C22: for every toolchain (GCC, Clang, Visual Studio) and build type, CPPDEFINES has
\* exactly one of DEBUG and NDEBUG: DEBUG if and only if the build type is Debug,
\* NDEBUG if and only if it is Release; so has the environment of a platform script.
C22_ExactlyOneOfDebugAndNdebug ==
    PastParsing
    => /\ \A env \in ToolchainEnvironments :
              /\ Contains(env.CPPDEFINES, "DEBUG") <=> buildType = "Debug"
              /\ Contains(env.CPPDEFINES, "NDEBUG") <=> buildType = "Release"
       /\ platformScript # Unbound
          => /\ Contains(platformScript.env.CPPDEFINES, "DEBUG") <=> buildType = "Debug"
             /\ Contains(platformScript.env.CPPDEFINES, "NDEBUG") <=> buildType = "Release"

---------------------------------------------------------------------------
(* Properties of IsCarbonEngineStatic *)

\* the install target is named and the platform is Linux or MacOSX
InstallCase ==
    "install" \in COMMAND_LINE_TARGETS /\ platformScript.platform \in {"Linux", "MacOSX"}

\* C23: outside the install case IsCarbonEngineStatic() returns the descriptor's
\* isCarbonEngineStatic whenever the descriptor has one, whatever static= is (True on
\* Android, iOS and iOSSimulator even with static=false), and otherwise True exactly
\* when static= is absent or 'true'; with the install target on Linux or MacOSX and
\* static not 'true' it returns False.
C23_StaticByDescriptorThenArgument ==
    returned # <<>>
    => IF InstallCase
       THEN ARGUMENTS.static # "true" /\ returned[1] = FALSE
       ELSE /\ platformScript.platform \in {"Android", "iOS", "iOSSimulator"}
               => returned[1] = TRUE
            /\ "isCarbonEngineStatic" \in DOMAIN platformScript
               => returned[1] = platformScript.isCarbonEngineStatic
            /\ "isCarbonEngineStatic" \notin DOMAIN platformScript
               => (returned[1] <=> ARGUMENTS.static \in {Absent, "true"})

C23_Witness ==
    /\ returned = <<TRUE>>
    /\ platformScript.platform = "iOS"
    /\ ARGUMENTS.static = "false"
    /\ "install" \in COMMAND_LINE_TARGETS

=============================================================================
